---- MODULE Spec2Model ----
(***************************************************************************)
(* A model of the template engine of f5-fast-core (lib/template.js):       *)
(* schema inference over a parsed Mustache token stream, the combination   *)
(* of parameters, the render pipeline, the structured (YAML) load, the     *)
(* forwarding of a rendered result over HTTP, the calls made on a loaded   *)
(* Template and the fetches a load runs in parallel.                       *)
(***************************************************************************)
EXTENDS Naturals, Integers, Sequences, FiniteSets, TLC

VARIABLES
    phase,      \* where _parametersSchemaFromTemplate stands
    self,       \* the Template being built: definitions, _typeDefinitions, _partials, _explicitDeps
    parsed,     \* the tokens of the root template text reduced so far
    fold,       \* the reduce accumulator of the root _handleParsed call
    schema,     \* _parametersSchema
    inferErr,   \* the error inference threw, "" when none
    rst,        \* the state of one render() call
    lst,        \* the state of one loadYaml() call
    fwd,        \* the state of one forwardHttp() call
    use,        \* a loaded Template and the calls made on it so far
    par         \* the fetches one load has started, and what has come back

inferVars == <<phase, self, parsed, fold, schema, inferErr>>
vars == <<phase, self, parsed, fold, schema, inferErr, rst, lst, fwd, use, par>>

(***************************************************************************)
(* JSON values. A JavaScript value is tagged with its type, so that values *)
(* of different types can be held in one collection.                       *)
(***************************************************************************)
Num(n) == [t |-> "num", v |-> n]
Str(s) == [t |-> "str", v |-> s]
Bool(b) == [t |-> "bool", v |-> b]
Arr(s) == [t |-> "arr", v |-> s]
Obj(o) == [t |-> "obj", v |-> o]
Null == [t |-> "null"]

Range(s) == {s[i] : i \in DOMAIN s}

Has(d, k) == k \in DOMAIN d
Get(d, k, dflt) == IF k \in DOMAIN d THEN d[k] ELSE dflt
With(d, k, v) == (k :> v) @@ d
Without(d, k) == [q \in DOMAIN d \ {k} |-> d[q]]
\* Object.assign(a, b)
Assign(a, b) == b @@ a

\* Set.add / Set.delete on an insertion-ordered Set
SeqAdd(s, e) == IF e \in Range(s) THEN s ELSE Append(s, e)
SeqDel(s, e) == SelectSeq(s, LAMBDA q : q # e)

RECURSIVE Dedup(_)
\* [...new Set(array)]
Dedup(s) ==
    IF s = <<>> THEN <<>>
    ELSE LET front == Dedup(SubSeq(s, 1, Len(s) - 1))
         IN  SeqAdd(front, s[Len(s)])

(***************************************************************************)
(* A JavaScript object whose key order matters (properties, definitions,   *)
(* dependencies): the keys in insertion order and the map.                 *)
(***************************************************************************)
OEmpty == [keys |-> <<>>, map |-> <<>>]
OHas(o, k) == k \in DOMAIN o.map
OGet(o, k) == o.map[k]
OPut(o, k, v) ==
    [keys |-> IF OHas(o, k) THEN o.keys ELSE Append(o.keys, k),
     map |-> (k :> v) @@ o.map]
ODel(o, k) ==
    [keys |-> SelectSeq(o.keys, LAMBDA q : q # k),
     map |-> [q \in DOMAIN o.map \ {k} |-> o.map[q]]]
\* Object.assign(dst, src) on ordered objects
OAssign(dst, src) ==
    [keys |-> dst.keys \o SelectSeq(src.keys, LAMBDA q : ~OHas(dst, q)),
     map |-> src.map @@ dst.map]
OFilter(o, Keep(_)) ==
    [keys |-> SelectSeq(o.keys, Keep),
     map |-> [q \in {k \in DOMAIN o.map : Keep(k)} |-> o.map[q]]]
OOne(k, v) == OPut(OEmpty, k, v)

(***************************************************************************)
(* deepmerge(a, b) with its default array merge (concatenation), on schema *)
(* fragments: objects merge key by key, arrays concatenate, anything else  *)
(* is taken from b.                                                        *)
(***************************************************************************)
ArrayFields == {"required", "invertDependency", "enum"}

RECURSIVE DeepMerge(_, _)
DeepMerge(a, b) ==
    [k \in DOMAIN a \cup DOMAIN b |->
        IF k \notin DOMAIN b THEN a[k]
        ELSE IF k \notin DOMAIN a THEN b[k]
        ELSE IF k = "items" THEN DeepMerge(a[k], b[k])
        ELSE IF k = "properties" THEN
            [keys |-> a[k].keys \o SelectSeq(b[k].keys, LAMBDA q : ~OHas(a[k], q)),
             map |-> [q \in DOMAIN a[k].map \cup DOMAIN b[k].map |->
                        IF ~OHas(b[k], q) THEN a[k].map[q]
                        ELSE IF ~OHas(a[k], q) THEN b[k].map[q]
                        ELSE DeepMerge(a[k].map[q], b[k].map[q])]]
        ELSE IF k = "dependencies" THEN
            [keys |-> a[k].keys \o SelectSeq(b[k].keys, LAMBDA q : ~OHas(a[k], q)),
             map |-> [q \in DOMAIN a[k].map \cup DOMAIN b[k].map |->
                        IF ~OHas(b[k], q) THEN a[k].map[q]
                        ELSE IF ~OHas(a[k], q) THEN b[k].map[q]
                        ELSE a[k].map[q] \o b[k].map[q]]]
        ELSE IF k \in ArrayFields THEN a[k] \o b[k]
        ELSE IF k = "default" /\ a[k].t = "arr" /\ b[k].t = "arr" THEN Arr(a[k].v \o b[k].v)
        ELSE b[k]]

\* deepmerge(dstDeps, srcDeps) on two dependency maps
MergeDeps(a, b) == DeepMerge([dependencies |-> a], [dependencies |-> b]).dependencies

(***************************************************************************)
(* Text. A name or an expression is a string; its characters are needed    *)
(* for String.prototype.includes.                                          *)
(***************************************************************************)
NameChars ==
    [x |-> <<"x">>, y |-> <<"y">>, f |-> <<"f">>, c |-> <<"c">>, a |-> <<"a">>,
     ab |-> <<"a", "b">>, p |-> <<"p">>, d |-> <<"d">>, t |-> <<"t">>]
Chars(name) == IF name \in DOMAIN NameChars THEN NameChars[name] ELSE <<name>>

\* text.includes(sub)
Includes(text, sub) ==
    \E i \in 0..(Len(text) - Len(sub)) : SubSeq(text, i + 1, i + Len(sub)) = sub

(***************************************************************************)
(* Inputs of inference: the type schemas and the data files the providers  *)
(* returned.                                                               *)
(***************************************************************************)
TypeSchemas ==
    [s |-> [definitions |-> OOne("t", [type |-> "integer"])]]
DataFiles == [file1 |-> "data"]
Base64 == [data |-> "ZGF0YQ=="]
ToBase64(s) == IF s \in DOMAIN Base64 THEN Base64[s] ELSE "base64(" \o s \o ")"
FromBase64(s) ==
    IF \E q \in DOMAIN Base64 : Base64[q] = s
    THEN CHOOSE q \in DOMAIN Base64 : Base64[q] = s
    ELSE "utf8(" \o s \o ")"

\* A token of Mustache.parse: [type, name, start, end, children]; the name is split at ':'
Tok(tt, name, schemaName, type, children) ==
    [tt |-> tt, name |-> name, schemaName |-> schemaName, type |-> type, children |-> children]
Var(name) == Tok("name", name, "", "", <<>>)
TypedVar(name, type) == Tok("name", name, "", type, <<>>)
Section(name, children) == Tok("#", name, "", "", children)
Inverted(name, children) == Tok("^", name, "", "", children)
Partial(name) == Tok(">", name, "", "", <<>>)

Primitives == {"boolean", "object", "number", "string", "integer", "array", "text", "hidden"}

(***************************************************************************)
(* Schema inference: Template._handleParsed and its helpers.               *)
(***************************************************************************)
NewTemplate(defs) ==
    [definitions |-> defs, typeDefinitions |-> OEmpty, partials |-> {}, explicitDeps |-> OEmpty]

\* The accumulator of the reduce in _handleParsed, with the `required` Set and the
\* `dependencies` object of the call, and the Template (`this`) the call may change.
EmptyFold(th) ==
    [this |-> th,
     acc |-> [type |-> "object", properties |-> OEmpty],
     required |-> <<>>,
     dependencies |-> OEmpty,
     err |-> ""]

Fail(f, e) == [f EXCEPT !.err = e]

IsPropRequiredNoDefaultCheck(propDef) ==
    /\ Get(propDef, "format", "") # "hidden"
    /\ Get(propDef, "format", "") # "info"
    /\ ~(Has(propDef, "mathExpression") /\ propDef.mathExpression # <<>>)
    /\ ~Has(propDef, "dataFile")

IsPropRequired(propDef) ==
    /\ Get(propDef, "format", "") # "hidden"
    /\ Get(propDef, "format", "") # "info"
    /\ ~(Has(propDef, "mathExpression") /\ propDef.mathExpression # <<>>)
    /\ ~Has(propDef, "dataFile")
    /\ ~Has(propDef, "default")

MergeSchemaIntoUnfiltered(dst, src, dstDeps) ==
    IF ~Has(src, "properties") THEN [dst |-> dst, src |-> src, deps |-> dstDeps]
    ELSE [dst |-> [dst EXCEPT !.properties = OAssign(dst.properties, src.properties)],
          src |-> src,
          deps |-> MergeDeps(dstDeps, Get(src, "dependencies", OEmpty))]

\* _mergeSchemaInto(dst, src, dstDeps): what it leaves in dst, in src and in dstDeps
MergeSchemaInto(dst, src, dstDeps) ==
    IF ~Has(src, "properties") THEN [dst |-> dst, src |-> src, deps |-> dstDeps]
    ELSE
        LET noOverwrite(prop) ==
                /\ OHas(dst.properties, prop)
                /\ Has(OGet(dst.properties, prop), "type")
                /\ OGet(dst.properties, prop).type \in {"array", "string"}
                /\ Has(OGet(src.properties, prop), "type")
                /\ OGet(src.properties, prop).type = "boolean"
            filtered == OFilter(src.properties, LAMBDA prop : ~noOverwrite(prop))
        IN  [dst |-> [dst EXCEPT !.properties = OAssign(dst.properties, filtered)],
             src |-> [src EXCEPT !.properties = filtered],
             deps |-> MergeDeps(dstDeps, Get(src, "dependencies", OEmpty))]

RECURSIVE PushDeps(_, _, _)
\* dependencies[item].push(defName) for every item
PushDeps(deps, items, defName) ==
    IF items = <<>> THEN deps
    ELSE LET item == Head(items)
             old == IF OHas(deps, item) THEN OGet(deps, item) ELSE <<>>
         IN  PushDeps(OPut(deps, item, Append(old, defName)), Tail(items), defName)

RECURSIVE AddAll(_, _)
AddAll(required, names) ==
    IF names = <<>> THEN required
    ELSE AddAll(SeqAdd(required, Head(names)), Tail(names))

\* lines 357-370: a token naming a type schema pulls the schema's definitions in
ResolveSchemaRef(f, tok) ==
    IF tok.tt \notin {"name", "#", ">", "^"} \/ tok.schemaName = "" THEN f
    ELSE IF tok.schemaName \notin DOMAIN TypeSchemas THEN Fail(f, "unknown schema")
    ELSE
        LET tdefs == TypeSchemas[tok.schemaName].definitions
        IN  IF ~OHas(tdefs, tok.type) THEN Fail(f, "unknown type")
            ELSE
                LET own == IF OHas(f.this.definitions, tok.type)
                           THEN OGet(f.this.definitions, tok.type) ELSE <<>>
                IN  [f EXCEPT
                        !.this.definitions = OPut(@, tok.type, Assign(OGet(tdefs, tok.type), own)),
                        !.this.typeDefinitions = OAssign(@, tdefs)]

PrimitiveDef(defType) ==
    IF defType = "text" THEN [type |-> "string", format |-> "text"]
    ELSE IF defType = "array" THEN [type |-> "array", items |-> [type |-> "string"]]
    ELSE IF defType = "hidden" THEN [type |-> "string", format |-> "hidden"]
    ELSE [type |-> defType]

\* lines 427-441
ResolveDataFile(propDef) ==
    IF ~Has(propDef, "dataFile") THEN propDef
    ELSE
        LET fmt == IF Get(propDef, "format", "") = "" THEN With(propDef, "format", "hidden") ELSE propDef
            known == propDef.dataFile \in DOMAIN DataFiles
            data == DataFiles[propDef.dataFile]
            value == IF Get(propDef, "toBase64", FALSE) THEN ToBase64(data)
                     ELSE IF Get(propDef, "fromBase64", FALSE) THEN FromBase64(data)
                     ELSE data
        IN  Without(IF known THEN With(fmt, "default", Str(value)) ELSE fmt, "dataFile")

\* lines 415-425: the type definitions a mathExpression pulls in
MathPulledAll(f, propDef, props) ==
    SelectSeq(f.this.typeDefinitions.keys, LAMBDA key : ~OHas(props, key))

MathPulled(f, propDef, props) ==
    SelectSeq(f.this.typeDefinitions.keys,
              LAMBDA key : ~OHas(props, key) /\ Includes(propDef.mathExpression, Chars(key)))

RECURSIVE PutCopies(_, _, _)
PutCopies(props, keys, tdefs) ==
    IF keys = <<>> THEN props
    ELSE PutCopies(OPut(props, Head(keys), OGet(tdefs, Head(keys))), Tail(keys), tdefs)

\* lines 374-406: the property a variable token declares, the author's definition on top
NameDef(f, tok, defType) ==
    Assign(IF tok.schemaName # ""
           THEN OGet(TypeSchemas[tok.schemaName].definitions, defType)
           ELSE PrimitiveDef(defType),
           IF OHas(f.this.definitions, tok.name)
           THEN OGet(f.this.definitions, tok.name) ELSE <<>>)

\* lines 411-413
InfoConst(propDef) ==
    IF Get(propDef, "format", "") = "info" /\ ~Has(propDef, "const")
    THEN With(propDef, "const", Str("")) ELSE propDef

IsMath(propDef) == Has(propDef, "mathExpression") /\ propDef.mathExpression # <<>>

\* lines 415-418
MathFormat(propDef) ==
    IF IsMath(propDef) /\ Get(propDef, "format", "") = ""
    THEN With(propDef, "format", "hidden") ELSE propDef

HandleNamePulled(f, tok, merged, props1, pulled) ==
    [f EXCEPT
        !.acc.properties = PutCopies(props1, pulled, f.this.typeDefinitions),
        !.required = AddAll(IF IsPropRequired(merged)
                            THEN SeqAdd(f.required, tok.name) ELSE f.required,
                            pulled)]

HandleNamePut(f, tok, merged, props1) ==
    HandleNamePulled(f, tok, merged, props1,
        IF IsMath(merged) THEN MathPulled(f, merged, props1) ELSE <<>>)

HandleNameDef(f, tok, merged) ==
    HandleNamePut(f, tok, merged,
        OPut(f.acc.properties, tok.name, ResolveDataFile(MathFormat(InfoConst(merged)))))

DefTypeOf(tok) == IF tok.type = "" THEN "string" ELSE tok.type

\* case 'name'
HandleName(f, tok) ==
    IF tok.schemaName = "" /\ DefTypeOf(tok) \notin Primitives
    THEN Fail(f, "no schema definition")
    ELSE HandleNameDef(f, tok, NameDef(f, tok, DefTypeOf(tok)))

HandlePartialMerged(f, tok, partial, m) ==
    [f EXCEPT
        !.acc = m.dst,
        !.dependencies = m.deps,
        !.this.typeDefinitions = OPut(@, tok.name, m.src),
        !.required = AddAll(@, Get(partial, "required", <<>>))]

\* case '>'
HandlePartial(f, tok) ==
    IF tok.name \notin f.this.partials THEN Fail(f, "unknown partial")
    ELSE HandlePartialMerged(f, tok, OGet(f.this.typeDefinitions, tok.name),
            MergeSchemaInto(f.acc, OGet(f.this.typeDefinitions, tok.name), f.dependencies))

RECURSIVE HandleParsed(_, _)

SectionTypes == {"array", "object", "boolean", "string"}

\* lines 481-492: a section may not redefine an existing property
RedefinesTypeNever(existingDef, defType) == FALSE

RedefinesType(existingDef, defType) ==
    Has(existingDef, "type") /\ existingDef.type # defType

RedefinesItems(existingDef, newDef) ==
    /\ Has(existingDef, "items")
    /\ Has(newDef, "items")
    /\ Get(existingDef.items, "type", "undefined") # Get(newDef.items, "type", "undefined")

DedupItemsRequired(def) ==
    IF Has(def, "items") /\ Has(def.items, "required")
    THEN [def EXCEPT !.items.required = Dedup(@)] ELSE def

\* lines 513-523
DedupRequired(def) ==
    DedupItemsRequired(IF Has(def, "required") THEN [def EXCEPT !.required = Dedup(@)] ELSE def)

\* lines 457-460
SectionSchemaDef(th, tok) ==
    DeepMerge(
        IF tok.type # "" /\ OHas(th.typeDefinitions, tok.type)
            THEN OGet(th.typeDefinitions, tok.type) ELSE <<>>,
        IF OHas(th.definitions, tok.name)
            THEN OGet(th.definitions, tok.name) ELSE <<>>)

ExistingDef(f, tok) ==
    IF OHas(f.acc.properties, tok.name) THEN OGet(f.acc.properties, tok.name) ELSE <<>>

\* lines 470-473
DropDefaulted(arrItems) ==
    IF Has(arrItems, "required") /\ Has(arrItems, "properties")
    THEN [arrItems EXCEPT !.required = SelectSeq(@,
            LAMBDA q : ~(OHas(arrItems.properties, q)
                         /\ Has(OGet(arrItems.properties, q), "default")))]
    ELSE arrItems

\* lines 463-476
SectionNewDef(schemaDef, defType, items) ==
    IF defType = "array"
    THEN With(With(Assign([type |-> defType], schemaDef), "items",
                   DropDefaulted(DeepMerge(items, Get(schemaDef, "items", <<>>)))),
              "skip_xform", TRUE)
    ELSE IF defType = "object"
    THEN With(Assign(Assign([type |-> defType], schemaDef), items), "skip_xform", TRUE)
    ELSE Assign([type |-> defType], schemaDef)

SectionEnd(f, tok, th, m, merged) ==
    [this |-> th,
     acc |-> [m.dst EXCEPT !.properties = OPut(@, tok.name, merged)],
     required |-> IF IsPropRequired(merged) THEN SeqAdd(f.required, tok.name) ELSE f.required,
     dependencies |-> m.deps,
     err |-> ""]

\* lines 494-506
SectionDeps(f, tok, items) ==
    IF Has(items, "properties")
    THEN PushDeps(f.dependencies, items.properties.keys, tok.name)
    ELSE f.dependencies

SectionHoist(f, tok, items, defType) ==
    IF defType \in {"boolean", "string"}
    THEN MergeSchemaInto(f.acc, items, SectionDeps(f, tok, items))
    ELSE [dst |-> f.acc, src |-> items, deps |-> SectionDeps(f, tok, items)]

SectionTyped(f, tok, th, items, defType, existingDef, newDef) ==
    IF defType \notin SectionTypes
        THEN [f EXCEPT !.err = "unsupported section type", !.this = th]
    ELSE IF RedefinesType(existingDef, defType)
        THEN [f EXCEPT !.err = "redefine type", !.this = th]
    ELSE IF RedefinesItems(existingDef, newDef)
        THEN [f EXCEPT !.err = "redefine items", !.this = th]
    ELSE SectionEnd(f, tok, th, SectionHoist(f, tok, items, defType),
                    DedupRequired(DeepMerge(existingDef, newDef)))

SectionWithDef(f, tok, th, items, schemaDef) ==
    SectionTyped(f, tok, th, items, Get(schemaDef, "type", "array"), ExistingDef(f, tok),
                 SectionNewDef(schemaDef, Get(schemaDef, "type", "array"), items))

SectionWithItems(f, tok, r) ==
    IF r.err # "" THEN [f EXCEPT !.err = r.err, !.this = r.this]
    ELSE SectionWithDef(f, tok, r.this, r.schema, SectionSchemaDef(r.this, tok))

\* case '#'
HandleSection(f, tok) == SectionWithItems(f, tok, HandleParsed(tok.children, f.this))

InvertedHasType(th, tok) == tok.type # "" /\ OHas(th.typeDefinitions, tok.type)

\* lines 533-536
InvertedSchemaDef(th, tok) ==
    Assign(
        IF InvertedHasType(th, tok) THEN OGet(th.typeDefinitions, tok.type) ELSE <<>>,
        IF OHas(th.definitions, tok.name) THEN OGet(th.definitions, tok.name) ELSE <<>>)

\* Object.assign writes into this._typeDefinitions[type] itself
InvertedThis(th, tok) ==
    IF InvertedHasType(th, tok)
    THEN [th EXCEPT !.typeDefinitions = OPut(@, tok.type, InvertedSchemaDef(th, tok))]
    ELSE th

\* lines 538-545
InvertedToggle(f, tok, schemaDef) ==
    IF ~OHas(f.acc.properties, tok.name)
    THEN OPut(f.acc.properties, tok.name, Assign([type |-> "boolean"], schemaDef))
    ELSE f.acc.properties

\* lines 566-568
InvertedToggleDefined(th, tok, props1) ==
    IF OHas(th.definitions, tok.name)
    THEN OPut(props1, tok.name, Assign(OGet(props1, tok.name), OGet(th.definitions, tok.name)))
    ELSE props1

\* line 548 without its test: every child of the inverted section is affected
InvertedAffectedAll(th, items) ==
    IF Has(items, "properties") THEN items.properties.keys ELSE <<>>

\* lines 546-561: the children that get the implicit dependency on the toggle
InvertedAffected(th, items) ==
    IF Has(items, "properties")
    THEN SelectSeq(items.properties.keys, LAMBDA item : ~OHas(th.explicitDeps, item))
    ELSE <<>>

InvertedItems(items, affected, defName) ==
    IF Has(items, "properties")
    THEN [items EXCEPT !.properties.map =
            [q \in DOMAIN items.properties.map |->
                IF q \in Range(affected)
                THEN With(items.properties.map[q], "invertDependency",
                          Append(Get(items.properties.map[q], "invertDependency", <<>>), defName))
                ELSE items.properties.map[q]]]
    ELSE items

InvertedEnd(f, tok, th, m) ==
    [this |-> th,
     acc |-> m.dst,
     required |-> SeqDel(f.required, tok.name),
     dependencies |-> m.deps,
     err |-> ""]

InvertedWithItems(f, tok, r) ==
    IF r.err # "" THEN [f EXCEPT !.err = r.err, !.this = r.this]
    ELSE InvertedEnd(f, tok, InvertedThis(r.this, tok),
            MergeSchemaInto(
                [f.acc EXCEPT !.properties =
                    InvertedToggleDefined(r.this, tok,
                        InvertedToggle(f, tok, InvertedSchemaDef(r.this, tok)))],
                InvertedItems(r.schema, InvertedAffected(r.this, r.schema), tok.name),
                PushDeps(f.dependencies, InvertedAffected(r.this, r.schema), tok.name)))

\* case '^'
HandleInverted(f, tok) == InvertedWithItems(f, tok, HandleParsed(tok.children, f.this))

\* one turn of the reduce: lines 353-579
Dispatch(g, tok) ==
    IF g.err # "" THEN g
    ELSE IF tok.tt = "name" THEN HandleName(g, tok)
    ELSE IF tok.tt = ">" THEN HandlePartial(g, tok)
    ELSE IF tok.tt = "#" THEN HandleSection(g, tok)
    ELSE IF tok.tt = "^" THEN HandleInverted(g, tok)
    ELSE g

Step(f, tok) == Dispatch(ResolveSchemaRef(f, tok), tok)

RECURSIVE FoldTokens(_, _)
FoldTokens(f, tokens) ==
    IF tokens = <<>> \/ f.err # "" THEN f
    ELSE FoldTokens(Step(f, Head(tokens)), Tail(tokens))

\* lines 595-605: propertyOrder
DefaultPropertyOrder == 1000
IndexOf(s, e) == CHOOSE i \in DOMAIN s : s[i] = e
PropertyOrderUnset(th, prop) == DefaultPropertyOrder

\* lines 596-603
PropertyOrder(th, prop) ==
    IF OHas(th.definitions, prop) THEN IndexOf(th.definitions.keys, prop) - 1
    ELSE DefaultPropertyOrder

\* lines 595-603: every property definition is given its propertyOrder
MarkOrder(props, th) ==
    [q \in DOMAIN props.map |-> With(props.map[q], "propertyOrder", PropertyOrder(th, q))]

RECURSIVE SortByOrder(_, _)
\* Array.prototype.sort with (a, b) => a.propertyOrder - b.propertyOrder: a stable sort
SortByOrder(keys, marked) ==
    IF keys = <<>> THEN <<>>
    ELSE LET front == SortByOrder(SubSeq(keys, 1, Len(keys) - 1), marked)
             last == keys[Len(keys)]
             before == SelectSeq(front,
                LAMBDA q : marked[q].propertyOrder <= marked[last].propertyOrder)
             after == SelectSeq(front,
                LAMBDA q : marked[q].propertyOrder > marked[last].propertyOrder)
         IN  before \o <<last>> \o after

KeepOrder(def) == def

\* line 613: delete curr.propertyOrder
StripOrder(def) == Without(def, "propertyOrder")

\* lines 606-616: the properties sorted, without their propertyOrder
SortedProperties(keys, marked) ==
    [keys |-> SortByOrder(keys, marked),
     map |-> [q \in DOMAIN marked |-> StripOrder(marked[q])]]

StripNothing(deps, required) == deps

\* lines 618-621: required names are removed from the dependencies
StripRequired(deps, required) == OFilter(deps, LAMBDA q : q \notin Range(required))

\* lines 584-634: what _handleParsed returns for the reduced accumulator
EmptySchemaType == "string"
Normalize(f) ==
    LET props == f.acc.properties
    IN  IF (OHas(props, ".") /\ Len(props.keys) = 1) \/ Len(props.keys) < 1
        THEN [type |-> EmptySchemaType]
        ELSE
            LET sorted == SortedProperties(props.keys, MarkOrder(props, f.this))
                deps1 == StripRequired(f.dependencies, f.required)
                deps2 == [keys |-> deps1.keys,
                          map |-> [q \in DOMAIN deps1.map |-> Dedup(deps1.map[q])]]
                base == [type |-> "object", properties |-> sorted, required |-> f.required]
            IN  IF Len(deps2.keys) > 0 \/ Len(f.this.explicitDeps.keys) > 0
                THEN With(base, "dependencies", OAssign(deps2, f.this.explicitDeps))
                ELSE base

\* _handleParsed(parsed, typeSchemas, dataFiles)
Returned(f) ==
    IF f.err # "" THEN [schema |-> <<>>, this |-> f.this, err |-> f.err]
    ELSE [schema |-> Normalize(f), this |-> f.this, err |-> ""]

HandleParsed(tokens, th) == Returned(FoldTokens(EmptyFold(th), tokens))

(***************************************************************************)
(* _parametersSchemaFromTemplate, for a template loaded from Mustache text *)
(* (loadMst: no oneOf/allOf/anyOf sub-templates).                          *)
(***************************************************************************)
RECURSIVE ExtractExplicitDeps(_, _)
\* lines 648-653
ExtractExplicitDeps(th, names) ==
    IF names = <<>> THEN th
    ELSE LET prop == Head(names)
             def == OGet(th.definitions, prop)
         IN  ExtractExplicitDeps(
                IF Has(def, "dependencies")
                THEN [th EXCEPT !.explicitDeps = OPut(@, prop, def.dependencies),
                                !.definitions = OPut(@, prop, Without(def, "dependencies"))]
                ELSE th,
                Tail(names))

\* lines 656-659
RegisterPartial(name, h) ==
    IF h.err # "" THEN [this |-> h.this, err |-> h.err]
    ELSE [this |-> [h.this EXCEPT
                      !.typeDefinitions = OPut(@, name, h.schema),
                      !.partials = @ \cup {name}],
          err |-> ""]

RECURSIVE CompileDefinitions(_, _, _)
\* lines 654-663: every definition with a template becomes a partial
CompileDefinitions(r, entries, names) ==
    IF names = <<>> \/ r.err # "" THEN r
    ELSE LET name == Head(names)
             def == OGet(entries, name)
         IN  IF Has(def, "template") /\ def.template # <<>>
             THEN CompileDefinitions(
                        RegisterPartial(name, HandleParsed(def.template, r.this)),
                        entries, Tail(names))
             ELSE CompileDefinitions(
                    [r EXCEPT !.this.typeDefinitions = OPut(@, name, def)],
                    entries, Tail(names))

CompileAll(th) ==
    CompileDefinitions([this |-> th, err |-> ""], th.definitions, th.definitions.keys)

\* lines 666-674
CollapseKeepString(sch) ==
    IF ~Has(sch, "properties") THEN With(sch, "properties", OEmpty) ELSE sch

CollapseEmpty(sch) ==
    LET typed == IF sch.type = "string" /\ ~Has(sch, "properties")
                 THEN [sch EXCEPT !.type = "object"] ELSE sch
    IN  IF ~Has(typed, "properties") THEN With(typed, "properties", OEmpty) ELSE typed

\* the combinators of a schema
XOf(sch) == {k \in {"oneOf", "allOf", "anyOf"} : Has(sch, k)}

RECURSIVE GetRefDefs(_)
\* getRefDefs(schema), as the set of the names it lists; a reference
\* '#/definitions/<name>' is held as <name>, which is what cleanRef makes of it
GetRefDefs(sch) ==
    LET props == IF Has(sch, "properties") THEN sch.properties ELSE OEmpty
    IN  (IF Has(sch, "$ref") THEN {sch["$ref"]} ELSE {})
        \cup UNION {
            (IF Has(OGet(props, q), "$ref") THEN {OGet(props, q)["$ref"]} ELSE {})
            \cup (IF Has(OGet(props, q), "items") THEN GetRefDefs(OGet(props, q).items) ELSE {})
            \cup GetRefDefs(OGet(props, q)) : q \in DOMAIN props.map}
        \cup UNION {UNION {GetRefDefs(sch[k][i]) : i \in DOMAIN sch[k]} : k \in XOf(sch)}

\* getParametersSchema() of a template without sub-templates
GetParametersSchema(sch, th) ==
    Assign(sch, [title |-> "", description |-> "", definitions |-> th.definitions])

\* lines 703-716
PruneDefinitions(sch, th) ==
    [th EXCEPT
        !.definitions = OFilter(th.typeDefinitions,
            LAMBDA key : key \in GetRefDefs(
                GetParametersSchema(sch, [th EXCEPT !.definitions = th.typeDefinitions]))),
        !.typeDefinitions = OEmpty,
        !.explicitDeps = OEmpty]

(***************************************************************************)
(* The inputs: the `definitions` an author may give, and the tokens a      *)
(* template text may parse to.                                             *)
(***************************************************************************)
MaxTokens == 2

Comment == Tok("!", "c", "", "", <<>>)
Text == Tok("text", "x", "", "", <<>>)

DefinitionSets ==
    { OEmpty,
      OOne("x", [type |-> "integer", default |-> Num(10)]),
      OPut(OPut(OOne("c", [mathExpression |-> <<"a", "b", "+", "1">>]),
                "a", [type |-> "number"]),
           "ab", [type |-> "number", default |-> Num(1)]),
      OPut(OPut(OOne("c", [mathExpression |-> <<"a", "b", "+", "x">>]),
                "a", [type |-> "number"]),
           "y", [type |-> "number"]),
      OOne("c", [type |-> "string", mathExpression |-> <<"a", "+", "a", "b">>]),
      OPut(OOne("f", [type |-> "boolean"]), "y", [dependencies |-> <<"x">>]),
      OOne("p", [template |-> <<Var("y"), TypedVar("x", "boolean")>>]),
      OOne("d", [dataFile |-> "file1", toBase64 |-> TRUE]),
      OOne("x", [type |-> "object"]),
      OOne("t", [type |-> "integer"]) }

TokenPool ==
    { Var("x"), Var("y"), Var("c"), Var("d"), Var("."),
      TypedVar("x", "hidden"), TypedVar("x", "array"),
      Tok("name", "y", "s", "t", <<>>), Tok("name", "y", "q", "t", <<>>),
      Section("x", <<Var("y")>>), Section("x", <<Var(".")>>), Section("f", <<Var("y")>>),
      Tok("#", "x", "", "t", <<Var("y")>>),
      Inverted("f", <<Var("y")>>), Inverted("x", <<Var("y")>>),
      Section("f", <<TypedVar("x", "boolean")>>), Inverted("f", <<TypedVar("x", "boolean")>>),
      Partial("p"), Comment, Text }

RenderIdle == [pc |-> "idle"]
LoadIdle == [pc |-> "idle"]
ForwardIdle == [pc |-> "idle"]
UseIdle == [pc |-> "idle"]
ParIdle == [pc |-> "idle"]

InferInit ==
    /\ phase = "definitions"
    /\ \E defs \in DefinitionSets : self = NewTemplate(defs)
    /\ parsed = <<>>
    /\ fold = EmptyFold(self)
    /\ schema = <<>>
    /\ inferErr = ""

\* lines 644-663
CompilePartials ==
    /\ phase = "definitions"
    /\ \E r \in {CompileAll(ExtractExplicitDeps(self, self.definitions.keys))} :
           /\ self' = r.this
           /\ fold' = EmptyFold(r.this)
           /\ inferErr' = r.err
           /\ phase' = IF r.err # "" THEN "failed" ELSE "reduce"
    /\ UNCHANGED <<parsed, schema, rst, lst, fwd, use, par>>

\* one token of the root template goes through the reduce
Reduce(tok) ==
    /\ phase = "reduce"
    /\ Len(parsed) < MaxTokens
    /\ \E g \in {Step(fold, tok)} :
           /\ fold' = g
           /\ self' = g.this
           /\ inferErr' = g.err
           /\ phase' = IF g.err # "" THEN "failed" ELSE "reduce"
    /\ parsed' = Append(parsed, tok)
    /\ UNCHANGED <<schema, rst, lst, fwd, use, par>>

ReduceName == \E tok \in TokenPool : tok.tt = "name" /\ Reduce(tok)
ReducePartial == \E tok \in TokenPool : tok.tt = ">" /\ Reduce(tok)
ReduceSection == \E tok \in TokenPool : tok.tt = "#" /\ Reduce(tok)
ReduceInverted == \E tok \in TokenPool : tok.tt = "^" /\ Reduce(tok)
ReduceSkipped == \E tok \in TokenPool : tok.tt \in {"!", "text"} /\ Reduce(tok)

\* the end of the token stream: lines 584-634 and 664
ReturnSchema ==
    /\ phase = "reduce"
    /\ schema' = Normalize(fold)
    /\ phase' = "parsed"
    /\ UNCHANGED <<self, parsed, fold, inferErr, rst, lst, fwd, use, par>>

\* lines 666-716
FinishSchema ==
    /\ phase = "parsed"
    /\ schema' = CollapseEmpty(schema)
    /\ self' = PruneDefinitions(CollapseEmpty(schema), self)
    /\ phase' = "done"
    /\ UNCHANGED <<parsed, fold, inferErr, rst, lst, fwd, use, par>>

Init ==
    /\ InferInit
    /\ rst = RenderIdle /\ lst = LoadIdle /\ fwd = ForwardIdle
    /\ use = UseIdle /\ par = ParIdle

Next ==
    \/ CompilePartials
    \/ ReduceName
    \/ ReducePartial
    \/ ReduceSection
    \/ ReduceInverted
    \/ ReduceSkipped
    \/ ReturnSchema
    \/ FinishSchema

Spec == Init /\ [][Next]_vars

(***************************************************************************)
(* Loaded templates. A structured document is loaded into a Template by    *)
(* loadYaml; the text of a JSON template is held as the members of the     *)
(* object it writes, each a literal or a quoted slot `"key": "{{name}}"`.  *)
(***************************************************************************)
Lit(key, value) == [key |-> key, slot |-> FALSE, value |-> value, tok |-> Text]
Slot(key, tok) == [key |-> key, slot |-> TRUE, value |-> Str(""), tok |-> tok]

\* Mustache.parse(templateText)
MustacheParse(text) == [i \in DOMAIN text |-> IF text[i].slot THEN text[i].tok ELSE Text]

\* the order of ['oneOf', 'allOf', 'anyOf'].forEach
SubTemplates(subs) == subs.oneOf \o subs.allOf \o subs.anyOf

RECURSIVE MergedDefinitions(_, _)
\* lines 638-647; a definition two templates give is merged field by field
MergedDefinitions(tmpls, defs) ==
    IF tmpls = <<>> THEN defs
    ELSE MergedDefinitions(SubSeq(tmpls, 1, Len(tmpls) - 1),
            DeepMerge([properties |-> tmpls[Len(tmpls)].definitions],
                      [properties |-> defs]).properties)

RECURSIVE KeyInXOf(_, _)
\* lines 678-695
KeyInXOf(key, tmpls) ==
    \E i \in DOMAIN tmpls :
        \/ OHas(tmpls[i].parametersSchema.properties, key)
        \/ KeyInXOf(key, SubTemplates(tmpls[i]))

\* lines 696-701
OverrideFromDefinitions(sch, defs, tmpls) ==
    [sch EXCEPT !.properties =
        [keys |-> @.keys \o SelectSeq(defs.keys,
                    LAMBDA name : ~OHas(sch.properties, name) /\ KeyInXOf(name, tmpls)),
         map |-> [name \in DOMAIN @.map \cup
                        {q \in DOMAIN defs.map : KeyInXOf(q, tmpls)} |->
                    IF OHas(sch.properties, name) THEN OGet(sch.properties, name)
                    ELSE OGet(defs, name)]]]

Rejected(e) == [err |-> e]

RECURSIVE TemplateSchema(_)
\* getParametersSchema() of a loaded Template
TemplateSchema(tmpl) ==
    [k \in {q \in {"oneOf", "allOf", "anyOf"} : tmpl[q] # <<>>} |->
        [i \in DOMAIN tmpl[k] |-> TemplateSchema(tmpl[k][i])]]
    @@ GetParametersSchema(tmpl.parametersSchema, tmpl)

\* lines 703-716 for a template with sub-templates: the definitions that
\* getRefDefs finds a reference to in this.getParametersSchema()
PrunedDefinitions(sch, th, subs) ==
    OFilter(th.typeDefinitions,
        LAMBDA key : key \in GetRefDefs(TemplateSchema(
            [parametersSchema |-> sch, definitions |-> th.typeDefinitions,
             oneOf |-> subs.oneOf, allOf |-> subs.allOf, anyOf |-> subs.anyOf])))

\* the Template a load resolves to
Loaded(doc, subs, skipValidation, sch, th) ==
    [err |-> "",
     templateText |-> doc.template,
     contentType |-> doc.contentType,
     defaultParameters |-> doc.parameters,
     parametersSchema |-> sch,
     definitions |-> PrunedDefinitions(sch, th, subs),
     oneOf |-> subs.oneOf,
     allOf |-> subs.allOf,
     anyOf |-> subs.anyOf,
     validator |-> ~skipValidation]

\* lines 664-716 and 921-926
LoadInferred(doc, subs, skipValidation, h) ==
    IF h.err # "" THEN Rejected(h.err)
    ELSE Loaded(doc, subs, skipValidation,
            OverrideFromDefinitions(CollapseEmpty(h.schema), h.this.definitions,
                                    SubTemplates(subs)),
            h.this)

\* lines 654-664
LoadCompiled(doc, subs, skipValidation, c) ==
    IF c.err # "" THEN Rejected(c.err)
    ELSE LoadInferred(doc, subs, skipValidation,
            HandleParsed(MustacheParse(doc.template), c.this))

LoadDefined(doc, subs, skipValidation, th) ==
    LoadCompiled(doc, subs, skipValidation,
        CompileAll(ExtractExplicitDeps(th, th.definitions.keys)))

\* tmpl._parametersSchemaFromTemplate and the validator, once the sub-templates are loaded
LoadWithSubs(doc, subs, skipValidation) ==
    IF \E i \in DOMAIN SubTemplates(subs) : SubTemplates(subs)[i].err # ""
    THEN Rejected("sub-template")
    ELSE LoadDefined(doc, subs, skipValidation,
            NewTemplate(MergedDefinitions(SubTemplates(subs), doc.definitions)))

RECURSIVE LoadYaml(_, _)
\* lines 875-878
LoadSubTemplate(subTemplate) == LoadYaml(subTemplate, TRUE)

\* lines 902-913
LoadSubTemplates(doc) ==
    [oneOf |-> [i \in DOMAIN doc.oneOf |-> LoadSubTemplate(doc.oneOf[i])],
     allOf |-> [i \in DOMAIN doc.allOf |-> LoadSubTemplate(doc.allOf[i])],
     anyOf |-> [i \in DOMAIN doc.anyOf |-> LoadSubTemplate(doc.anyOf[i])]]

\* loadYaml once the references are bundled
LoadYaml(doc, skipValidation) == LoadWithSubs(doc, LoadSubTemplates(doc), skipValidation)

(***************************************************************************)
(* Parameters: getCombinedParameters, the validator, transformParameters.  *)
(***************************************************************************)
ArrayMergeKeepBoth(dstArray, srcArray) == dstArray \o srcArray

\* line 33
ArrayMergeOverwrite(dstArray, srcArray) == srcArray

\* the arrayMerge deepmerge uses when it is given none
DefaultArrayMerge(dstArray, srcArray) == dstArray \o srcArray

RECURSIVE MergeValue(_, _, _)
\* deepmerge(x, y, {arrayMerge}) on two JSON values
MergeValue(x, y, overwrite) ==
    IF x.t = "obj" /\ y.t = "obj"
    THEN Obj([k \in DOMAIN x.v \cup DOMAIN y.v |->
                IF k \notin DOMAIN y.v THEN x.v[k]
                ELSE IF k \notin DOMAIN x.v THEN y.v[k]
                ELSE MergeValue(x.v[k], y.v[k], overwrite)])
    ELSE IF x.t = "arr" /\ y.t = "arr"
    THEN Arr(IF overwrite THEN ArrayMergeOverwrite(x.v, y.v) ELSE DefaultArrayMerge(x.v, y.v))
    ELSE y

RECURSIVE MergeAll(_, _)
\* deepmerge.all(values, {arrayMerge: arrayMergeOverwrite})
MergeAll(values, overwrite) ==
    IF values = <<>> THEN Obj(<<>>)
    ELSE MergeValue(MergeAll(SubSeq(values, 1, Len(values) - 1), overwrite),
                    values[Len(values)], overwrite)

\* lines 1018-1025
TypeDefaults(tmpl) ==
    Obj([key \in {q \in DOMAIN tmpl.parametersSchema.properties.map :
                    Has(OGet(tmpl.parametersSchema.properties, q), "default")} |->
            OGet(tmpl.parametersSchema.properties, key).default])

Digits == [d \in {"0", "1", "2", "3"} |-> CHOOSE n \in 0..3 : ToString(n) = d]

\* an operand of an expression: a number, or an identifier bound to a number
MexpOperand(e, pairs) ==
    IF e \in DOMAIN Digits THEN [ok |-> TRUE, n |-> Digits[e]]
    ELSE IF e \in DOMAIN pairs /\ pairs[e].t = "num" THEN [ok |-> TRUE, n |-> pairs[e].v]
    ELSE [ok |-> FALSE, n |-> 0]

RECURSIVE MexpEval(_, _)
\* mexp.eval(expression, tokens, pairs) for a sum of operands; an unbound
\* identifier makes it throw
MexpEval(expr, pairs) ==
    IF Len(expr) = 1 THEN MexpOperand(expr[1], pairs)
    ELSE IF Len(expr) < 3 \/ expr[Len(expr) - 1] # "+" THEN [ok |-> FALSE, n |-> 0]
    ELSE [ok |-> MexpEval(SubSeq(expr, 1, Len(expr) - 2), pairs).ok
                    /\ MexpOperand(expr[Len(expr)], pairs).ok,
          n |-> MexpEval(SubSeq(expr, 1, Len(expr) - 2), pairs).n
                    + MexpOperand(expr[Len(expr)], pairs).n]

\* lines 1058-1062
MathResult(value, r) ==
    [ok |-> r.ok, v |-> IF value.type = "string" THEN Str(ToString(r.n)) ELSE Num(r.n)]

\* lines 1055-1065
MathExprResults(tmpl, defaults) ==
    [key \in {q \in DOMAIN tmpl.parametersSchema.properties.map :
                Has(OGet(tmpl.parametersSchema.properties, q), "mathExpression")} |->
        MathResult(OGet(tmpl.parametersSchema.properties, key),
            MexpEval(OGet(tmpl.parametersSchema.properties, key).mathExpression, defaults.v))]

SpliceUnderDefaults(defaults, results) ==
    Obj(defaults.v @@ [key \in DOMAIN results |-> results[key].v])

\* line 1067
SpliceResults(defaults, results) ==
    Obj([key \in DOMAIN results |-> results[key].v] @@ defaults.v)

CombineThrown == [ok |-> FALSE, v |-> Obj(<<>>)]

CombinedMath(defaults, results) ==
    IF \E key \in DOMAIN results : ~results[key].ok THEN CombineThrown
    ELSE [ok |-> TRUE, v |-> SpliceResults(defaults, results)]

\* lines 1033-1040
FoldDefaults(tmpl, parameters, mergedDefaults) ==
    MergeAll([i \in DOMAIN mergedDefaults |-> mergedDefaults[i].v]
                \o <<TypeDefaults(tmpl), tmpl.defaultParameters, parameters>>, TRUE)

CombinedFolded(tmpl, defaults) == CombinedMath(defaults, MathExprResults(tmpl, defaults))

CombinedFrom(tmpl, parameters, mergedDefaults) ==
    IF \E i \in DOMAIN mergedDefaults : ~mergedDefaults[i].ok THEN CombineThrown
    ELSE CombinedFolded(tmpl, FoldDefaults(tmpl, parameters, mergedDefaults))

RECURSIVE GetCombinedParameters(_, _)
\* lines 1016-1068: [ok, v], ok false when the evaluation of an expression threw
GetCombinedParameters(tmpl, parameters) ==
    CombinedFrom(tmpl, parameters,
        [i \in DOMAIN SubTemplates(tmpl) |->
            GetCombinedParameters(SubTemplates(tmpl)[i], parameters)])

\* a JSON Schema `type` keyword
IsType(type, val) ==
    CASE type \in {"integer", "number"} -> val.t = "num"
      [] type = "string" -> val.t = "str"
      [] type = "boolean" -> val.t = "bool"
      [] type = "array" -> val.t = "arr"
      [] type = "object" -> val.t = "obj"
      [] OTHER -> TRUE

RECURSIVE ValidationErrors(_, _)
\* the errors of the validator Ajv compiles from a schema, for the keywords the
\* inferred schemas use: type, required, properties, items, allOf, anyOf, oneOf
ValidationErrors(sch, val) ==
    (IF Has(sch, "type") /\ ~IsType(sch.type, val)
        THEN {[keyword |-> "type", at |-> sch.type]} ELSE {})
    \cup (IF val.t = "obj"
        THEN {[keyword |-> "required", at |-> key] :
                key \in Range(Get(sch, "required", <<>>)) \ DOMAIN val.v}
        ELSE {})
    \cup (IF val.t = "obj" /\ Has(sch, "properties")
        THEN UNION {ValidationErrors(OGet(sch.properties, key), val.v[key]) :
                        key \in DOMAIN val.v \cap DOMAIN sch.properties.map}
        ELSE {})
    \cup (IF val.t = "arr" /\ Has(sch, "items")
        THEN UNION {ValidationErrors(sch.items, val.v[i]) : i \in DOMAIN val.v}
        ELSE {})
    \cup UNION {ValidationErrors(Get(sch, "allOf", <<>>)[i], val) :
                    i \in DOMAIN Get(sch, "allOf", <<>>)}
    \cup (IF Has(sch, "anyOf")
            /\ \A i \in DOMAIN sch.anyOf : ValidationErrors(sch.anyOf[i], val) # {}
        THEN {[keyword |-> "anyOf", at |-> ""]} ELSE {})
    \cup (IF Has(sch, "oneOf")
            /\ Cardinality({i \in DOMAIN sch.oneOf :
                                ValidationErrors(sch.oneOf[i], val) = {}}) # 1
        THEN {[keyword |-> "oneOf", at |-> ""]} ELSE {})

RECURSIVE UseDefaults(_, _)
RECURSIVE UseDefaultsOfAll(_, _)
\* the `useDefaults` option of the validator (line 735): validation assigns the
\* defaults of `properties` to the objects of the data that miss them, at any
\* depth below `properties`, `items` and `allOf`
UseDefaults(sch, val) ==
    UseDefaultsOfAll(Get(sch, "allOf", <<>>),
        IF val.t = "obj" /\ Has(sch, "properties")
        THEN Obj([k \in DOMAIN val.v \cup
                        {q \in DOMAIN sch.properties.map :
                            Has(OGet(sch.properties, q), "default")} |->
                    IF k \notin DOMAIN val.v THEN OGet(sch.properties, k).default
                    ELSE IF OHas(sch.properties, k)
                        THEN UseDefaults(OGet(sch.properties, k), val.v[k])
                    ELSE val.v[k]])
        ELSE IF val.t = "arr" /\ Has(sch, "items")
        THEN Arr([i \in DOMAIN val.v |-> UseDefaults(sch.items, val.v[i])])
        ELSE val)

UseDefaultsOfAll(schemas, val) ==
    IF schemas = <<>> THEN val
    ELSE UseDefaultsOfAll(Tail(schemas), UseDefaults(Head(schemas), val))

NoError == [kind |-> "", parameters |-> Obj(<<>>), errors |-> {}]
MathError == [kind |-> "math expression", parameters |-> Obj(<<>>), errors |-> {}]
\* a Template loaded with skipValidation has no _parametersValidator to call
NotAFunction == [kind |-> "not a function", parameters |-> Obj(<<>>), errors |-> {}]

\* lines 1077-1084
ValidationFailure(tmpl, parameters, combParams) ==
    IF ~combParams.ok THEN MathError
    ELSE IF ~tmpl.validator THEN NotAFunction
    ELSE IF ValidationErrors(TemplateSchema(tmpl),
                UseDefaults(TemplateSchema(tmpl), combParams.v)) = {} THEN NoError
    ELSE [kind |-> "failed validation",
          parameters |-> parameters,
          errors |-> ValidationErrors(TemplateSchema(tmpl),
                        UseDefaults(TemplateSchema(tmpl), combParams.v))]

ValidatePasses(tmpl, parameters) == NoError

\* validateParameters(parameters): the error it throws, NoError when it returns
ValidateParameters(tmpl, parameters) ==
    ValidationFailure(tmpl, parameters, GetCombinedParameters(tmpl, parameters))

\* deepmerge clones the objects it merges, but arrayMergeOverwrite (line 33)
\* hands the source array on as it is: an array of the combined parameters that
\* the caller did not give is the very array of the template it was taken from
TakenArrays(parameters, combParams) ==
    {k \in DOMAIN combParams.v : combParams.v[k].t = "arr"} \ DOMAIN parameters.v

\* the keys a template gives a value itself: lines 1018-1025 and 1037
OwnKeys(tmpl) == DOMAIN tmpl.defaultParameters.v \cup DOMAIN TypeDefaults(tmpl).v

\* the last of the sub-templates whose combined parameters hold a key, 0 when none
LastHolder(tmpl, parameters, k) ==
    IF \E i \in DOMAIN SubTemplates(tmpl) :
            k \in DOMAIN GetCombinedParameters(SubTemplates(tmpl)[i], parameters).v.v
    THEN CHOOSE i \in DOMAIN SubTemplates(tmpl) :
            /\ k \in DOMAIN GetCombinedParameters(SubTemplates(tmpl)[i], parameters).v.v
            /\ \A j \in (i + 1)..Len(SubTemplates(tmpl)) :
                k \notin DOMAIN GetCombinedParameters(SubTemplates(tmpl)[j], parameters).v.v
    ELSE 0

\* the schema once the validator wrote into the default arrays of its properties
WriteDefaults(sch, filled, keys) ==
    [sch EXCEPT !.properties.map =
        [q \in DOMAIN @ |->
            IF q \in keys /\ Has(@[q], "default")
            THEN [@[q] EXCEPT !.default = filled.v[q]] ELSE @[q]]]

WriteNothing(tmpl, parameters, filled, keys) == tmpl

RECURSIVE WriteArrays(_, _, _, _)
\* the sub-templates of one kind once the validator wrote into their arrays
WriteSubs(tmpl, kind, offset, parameters, filled, keys) ==
    [i \in DOMAIN tmpl[kind] |->
        WriteArrays(tmpl[kind][i], parameters, filled,
            {k \in keys : LastHolder(tmpl, parameters, k) = offset + i})]

\* the Template once the validator assigned defaults into the elements of the
\* arrays of `keys`: each array belongs to the highest source that holds the key
WriteArrays(tmpl, parameters, filled, keys) ==
    [tmpl EXCEPT
        !.defaultParameters =
            Obj([k \in DOMAIN @.v |-> IF k \in keys THEN filled.v[k] ELSE @.v[k]]),
        !.parametersSchema =
            WriteDefaults(@, filled, keys \ DOMAIN tmpl.defaultParameters.v),
        !.oneOf = WriteSubs(tmpl, "oneOf", 0, parameters, filled, keys \ OwnKeys(tmpl)),
        !.allOf = WriteSubs(tmpl, "allOf", Len(tmpl.oneOf), parameters, filled,
                            keys \ OwnKeys(tmpl)),
        !.anyOf = WriteSubs(tmpl, "anyOf", Len(tmpl.oneOf) + Len(tmpl.allOf), parameters,
                            filled, keys \ OwnKeys(tmpl))]

\* lines 1077-1080: the Template after a validation that passed; a validation
\* that fails stops at its first error, and no assignment is modelled for it
Validated(tmpl, parameters, combParams) ==
    IF ValidationFailure(tmpl, parameters, combParams).kind # "" THEN tmpl
    ELSE WriteArrays(tmpl, parameters, UseDefaults(TemplateSchema(tmpl), combParams.v),
                     TakenArrays(parameters, combParams.v))

\* the Template after validateParameters(parameters)
AfterValidate(tmpl, parameters) ==
    Validated(tmpl, parameters, GetCombinedParameters(tmpl, parameters))

\* !value
Falsy(value) == value \in {Num(0), Str(""), Bool(FALSE), Null}

\* JSON.stringify(value): the text, held as the value it encodes
Json(value) == [t |-> "json", v |-> value]

\* lines 119-143
JsonTransformStrategy(sch, value) ==
    IF Get(sch, "type", "") = "array" /\ Falsy(value) THEN Json(Arr(<<>>))
    ELSE IF /\ Get(sch, "type", "") = "array"
            /\ \/ value.t = "arr" /\ value.v # <<>>
               \/ value.t = "str" /\ value.v # ""
            /\ ~Has(sch, "skip_xform")
        THEN Json(value)
    ELSE IF Get(sch, "type", "") = "object" /\ Falsy(value) THEN Json(Obj(<<>>))
    ELSE IF Get(sch, "type", "") = "object" /\ ~Has(sch, "skip_xform") THEN Json(value)
    ELSE IF Get(sch, "format", "") = "text" /\ ~Falsy(value) THEN Json(value)
    ELSE value

\* lines 112-114
PlainTextTransformStrategy(sch, value) == value

\* lines 1090-1105
TransformParameters(tmpl, parameters) ==
    Obj([curr \in DOMAIN parameters.v |->
            IF ~OHas(tmpl.parametersSchema.properties, curr) THEN parameters.v[curr]
            ELSE IF tmpl.contentType = "application/json"
                THEN JsonTransformStrategy(OGet(tmpl.parametersSchema.properties, curr),
                                           parameters.v[curr])
            ELSE PlainTextTransformStrategy(OGet(tmpl.parametersSchema.properties, curr),
                                            parameters.v[curr])])

(***************************************************************************)
(* render. A rendered text is held as the JSON value it parses to; the     *)
(* text of length zero is EmptyText.                                       *)
(***************************************************************************)
EmptyText == [t |-> "text", v |-> ""]

\* what Mustache writes for a scalar
TextOf(value) ==
    CASE value.t = "num" -> ToString(value.v)
      [] value.t = "str" -> value.v
      [] value.t = "bool" -> IF value.v THEN "true" ELSE "false"
      [] value.t = "null" -> ""

\* the value a name has in a context, or in the view around it
Lookup(name, context, view) ==
    IF context.t = "obj" /\ name \in DOMAIN context.v THEN context.v[name]
    ELSE IF name \in DOMAIN view.v THEN view.v[name]
    ELSE Str("")

RECURSIVE BodyText(_, _, _)
\* the text the variables of a section body write in one context
BodyText(children, context, view) ==
    IF children = <<>> THEN ""
    ELSE TextOf(Lookup(Head(children).name, context, view))
            \o BodyText(Tail(children), context, view)

\* a section writes its body once for every element of a list, once for any
\* other value that is not falsy, and not at all otherwise
SectionTexts(tok, value, view) ==
    IF value.t = "arr"
    THEN Arr([i \in DOMAIN value.v |-> Str(BodyText(tok.children, value.v[i], view))])
    ELSE IF Falsy(value) THEN Arr(<<>>)
    ELSE Arr(<<Str(BodyText(tok.children, value, view))>>)

\* what a variable writes into its slot: a serialized value writes its JSON
\* text, an array or an object that was not serialized writes no JSON at all
SlotText(value) ==
    IF value.t = "json" THEN value.v
    ELSE IF value.t \in {"arr", "obj"} THEN [t |-> "not JSON", v |-> value]
    ELSE Str(TextOf(value))

\* Mustache.render(templateText, xfparams, partials): a slot takes the text of
\* its variable, or nothing when the view does not hold it
MustacheRender(text, view) ==
    IF text = <<>> THEN EmptyText
    ELSE Obj([key \in {text[i].key : i \in DOMAIN text} |->
            LET member == text[CHOOSE i \in DOMAIN text : text[i].key = key]
            IN  IF ~member.slot THEN member.value
                ELSE IF member.tok.tt = "#"
                    THEN SectionTexts(member.tok, Lookup(member.tok.name, view, view), view)
                ELSE IF member.tok.name \in DOMAIN view.v
                    THEN SlotText(view.v[member.tok.name])
                ELSE Str("")])

JsonMergeReplacing(acc, curr) == MergeValue(acc, curr, TRUE)

\* lines 164-169
JsonMergeStrategy(acc, curr) == MergeValue(acc, curr, FALSE)

\* lines 157-159: the two texts on two lines
PlainTextMergeStrategy(acc, curr) == [t |-> "lines", v |-> <<acc, curr>>]

\* line 1126
MergeStrategy(contentType, acc, curr) ==
    IF contentType = "application/json" THEN JsonMergeStrategy(acc, curr)
    ELSE PlainTextMergeStrategy(acc, curr)

RECURSIVE MergeTexts(_, _)
\* lines 1157-1168: the reduce has no initial value
MergeTexts(contentType, templateTexts) ==
    IF Len(templateTexts) = 1 THEN templateTexts[1]
    ELSE LET acc == MergeTexts(contentType, SubSeq(templateTexts, 1, Len(templateTexts) - 1))
             curr == templateTexts[Len(templateTexts)]
         IN  IF curr = EmptyText THEN acc
             ELSE IF acc = EmptyText THEN curr
             ELSE MergeStrategy(contentType, acc, curr)

\* lines 196-201
JsonPostProcessStrategy(rendered) ==
    IF rendered = EmptyText \/ Falsy(rendered) THEN Str("") ELSE rendered

\* lines 1170-1173
PostProcess(contentType, rendered) ==
    IF contentType = "application/json" THEN JsonPostProcessStrategy(rendered) ELSE rendered

\* the order in which render goes through the sub-templates
RenderOrder(tmpl) == tmpl.allOf \o tmpl.anyOf \o tmpl.oneOf
KindAt(tmpl, i) ==
    IF i <= Len(tmpl.allOf) THEN "allOf"
    ELSE IF i <= Len(tmpl.allOf) + Len(tmpl.anyOf) THEN "anyOf"
    ELSE "oneOf"

\* lines 1139-1143: what the catch around an anyOf or oneOf branch swallows
Swallowed(kind, r) ==
    kind \in {"anyOf", "oneOf"} /\ r.err.kind = "failed validation"

Threw(e) == [ok |-> FALSE, text |-> EmptyText, err |-> e]
Returns(text) == [ok |-> TRUE, text |-> text, err |-> NoError]

\* the index of the first sub-template whose error aborts the render, 0 when none
FirstAbort(tmpl, results) ==
    IF \E i \in DOMAIN results : ~results[i].ok /\ ~Swallowed(KindAt(tmpl, i), results[i])
    THEN CHOOSE i \in DOMAIN results :
            /\ ~results[i].ok /\ ~Swallowed(KindAt(tmpl, i), results[i])
            /\ \A j \in 1..(i - 1) : results[j].ok \/ Swallowed(KindAt(tmpl, j), results[j])
    ELSE 0

\* lines 1133-1175
RenderTexts(tmpl, combParams, results) ==
    IF FirstAbort(tmpl, results) # 0 THEN Threw(results[FirstAbort(tmpl, results)].err)
    ELSE Returns(PostProcess(tmpl.contentType, MergeTexts(tmpl.contentType,
            [i \in DOMAIN SelectSeq(results, LAMBDA r : r.ok) |->
                SelectSeq(results, LAMBDA r : r.ok)[i].text]
            \o <<MustacheRender(tmpl.templateText, TransformParameters(tmpl, combParams))>>)))

RECURSIVE Render(_, _, _)
\* lines 1129-1135
RenderSubTemplates(tmpl, combParams) ==
    [i \in DOMAIN RenderOrder(tmpl) |-> Render(RenderOrder(tmpl)[i], combParams, TRUE)]

RenderCombined(tmpl, combParams) ==
    IF ~combParams.ok THEN Threw(MathError)
    ELSE RenderTexts(tmpl, combParams.v, RenderSubTemplates(tmpl, combParams.v))

RenderValidated(tmpl, parameters, failure) ==
    IF failure.kind # "" THEN Threw(failure)
    ELSE RenderCombined(tmpl, GetCombinedParameters(tmpl, parameters))

\* render(parameters, options) as a whole, as render calls it on a sub-template
Render(tmpl, parameters, skipValidation) ==
    IF skipValidation THEN RenderValidated(tmpl, parameters, NoError)
    ELSE RenderValidated(AfterValidate(tmpl, parameters), parameters,
                         ValidateParameters(tmpl, parameters))

(***************************************************************************)
(* The documents and the parameters of the modelled calls.                 *)
(***************************************************************************)
Doc(template, definitions, parameters, contentType, subs) ==
    [template |-> template, definitions |-> definitions, parameters |-> parameters,
     contentType |-> contentType,
     oneOf |-> subs.oneOf, allOf |-> subs.allOf, anyOf |-> subs.anyOf]

NoSubs == [oneOf |-> <<>>, allOf |-> <<>>, anyOf |-> <<>>]
JsonDoc(template, definitions, parameters) ==
    Doc(template, definitions, parameters, "application/json", NoSubs)

\* {"x": "{{x}}"} and {"y": "{{y}}"}
NeedsX == JsonDoc(<<Slot("x", Var("x"))>>, OEmpty, Obj(<<>>))
NeedsY == JsonDoc(<<Slot("y", Var("y"))>>, OEmpty, Obj(<<>>))
\* {"l": [1], "x": 1}
ListOne ==
    JsonDoc(<<Lit("l", Arr(<<Num(1)>>)), Lit("x", Num(1))>>, OEmpty,
            Obj([l |-> Arr(<<Num(1)>>), o |-> Obj([a |-> Num(1)])]))
\* no text at all, as text/plain and as application/json
Silent == Doc(<<>>, OEmpty, Obj([x |-> Str("s")]), "text/plain", NoSubs)
Blank == JsonDoc(<<>>, OEmpty, Obj(<<>>))

SumOfAB == <<"a", "+", "b">>

Documents ==
    { JsonDoc(<<Slot("x", Var("x")), Lit("y", Num(2))>>, OEmpty, Obj(<<>>)),
      Doc(<<Slot("x", Var("x")), Lit("l", Arr(<<Num(2)>>))>>,
          OOne("x", [type |-> "integer", default |-> Num(1)]),
          Obj([l |-> Arr(<<Num(2)>>), o |-> Obj([b |-> Num(2)])]),
          "application/json", [NoSubs EXCEPT !.allOf = <<ListOne>>]),
      JsonDoc(<<Slot("c", Var("c"))>>,
          OPut(OPut(OOne("c", [mathExpression |-> SumOfAB]),
                    "a", [type |-> "number"]), "b", [type |-> "number"]),
          Obj(<<>>)),
      JsonDoc(<<Slot("c", Var("c"))>>,
          OPut(OPut(OOne("c", [type |-> "number", mathExpression |-> SumOfAB]),
                    "a", [type |-> "number"]), "b", [type |-> "number", default |-> Num(1)]),
          Obj(<<>>)),
      Doc(<<Lit("z", Num(0))>>, OEmpty, Obj(<<>>), "application/json",
          [NoSubs EXCEPT !.anyOf = <<NeedsX, NeedsY>>]),
      Doc(<<Lit("z", Num(0))>>, OEmpty, Obj(<<>>), "application/json",
          [NoSubs EXCEPT !.oneOf = <<NeedsX, NeedsY>>, !.allOf = <<Silent>>]),
      Doc(<<Lit("y", Num(2))>>, OEmpty, Obj(<<>>), "application/json",
          [NoSubs EXCEPT !.allOf = <<Blank>>]) }

ParameterSets ==
    { Obj(<<>>),
      Obj([x |-> Str("a")]),
      Obj([y |-> Str("b")]),
      Obj([x |-> Str("a"), y |-> Str("b")]),
      Obj([x |-> Num(3)]),
      Obj([a |-> Num(2), b |-> Num(3)]),
      Obj([a |-> Num(2), b |-> Num(3), c |-> Str("9")]),
      Obj([a |-> Num(2)]),
      Obj([x |-> Num(3), l |-> Arr(<<Num(3)>>)]),
      Obj([x |-> Num(3), o |-> Obj([a |-> Num(3)])]) }

(***************************************************************************)
(* One render() call on a loaded root Template, statement by statement.    *)
(***************************************************************************)
InferIdle ==
    /\ phase = "idle"
    /\ self = NewTemplate(OEmpty)
    /\ parsed = <<>>
    /\ fold = EmptyFold(NewTemplate(OEmpty))
    /\ schema = <<>>
    /\ inferErr = ""

Ev(ev, kind, i) == [ev |-> ev, kind |-> kind, i |-> i]

RenderInit ==
    /\ InferIdle
    /\ lst = LoadIdle
    /\ fwd = ForwardIdle
    /\ use = UseIdle
    /\ par = ParIdle
    /\ \E doc \in Documents, parameters \in ParameterSets, skipValidation \in BOOLEAN :
        rst = [pc |-> "called",
               tmpl |-> LoadYaml(doc, FALSE),
               parameters |-> parameters,
               skipValidation |-> skipValidation,
               combParams |-> Obj(<<>>),
               xfparams |-> Obj(<<>>),
               templateTexts |-> <<>>,
               idx |-> 1,
               log |-> <<>>,
               err |-> NoError,
               rendered |-> EmptyText]

RenderThrows(e) == rst' = [rst EXCEPT !.pc = "thrown", !.err = e]

\* lines 1119-1122
RenderValidate ==
    /\ rst.pc = "called"
    /\ \E failure \in {IF rst.skipValidation THEN NoError
                       ELSE ValidateParameters(rst.tmpl, rst.parameters)} :
        rst' = [rst EXCEPT
                    !.pc = IF failure.kind # "" THEN "thrown" ELSE "combine",
                    !.tmpl = IF rst.skipValidation THEN @
                             ELSE AfterValidate(@, rst.parameters),
                    !.err = failure,
                    !.log = IF rst.skipValidation THEN @
                            ELSE Append(@, Ev("validate", "", 0))]
    /\ UNCHANGED <<inferVars, lst, fwd, use, par>>

\* lines 1123-1124
RenderCombine ==
    /\ rst.pc = "combine"
    /\ \E c \in {GetCombinedParameters(rst.tmpl, rst.parameters)} :
        IF ~c.ok THEN RenderThrows(MathError)
        ELSE rst' = [rst EXCEPT
                        !.pc = "subs",
                        !.combParams = c.v,
                        !.xfparams = TransformParameters(rst.tmpl, c.v),
                        !.log = @ \o <<Ev("combine", "", 0), Ev("transform", "", 0)>>]
    /\ UNCHANGED <<inferVars, lst, fwd, use, par>>

\* one turn of a forEach over the sub-templates of one kind
RenderSub(kind) ==
    /\ rst.idx <= Len(RenderOrder(rst.tmpl))
    /\ KindAt(rst.tmpl, rst.idx) = kind
    /\ \E r \in {Render(RenderOrder(rst.tmpl)[rst.idx], rst.combParams, TRUE)} :
        IF r.ok
        THEN rst' = [rst EXCEPT
                        !.templateTexts = Append(@, r.text),
                        !.idx = @ + 1,
                        !.log = Append(@, Ev("push", kind, rst.idx))]
        ELSE IF Swallowed(kind, r)
        THEN rst' = [rst EXCEPT
                        !.idx = @ + 1,
                        !.log = Append(@, Ev("swallow", kind, rst.idx))]
        ELSE RenderThrows(r.err)
    /\ UNCHANGED <<inferVars, lst, fwd, use, par>>

\* lines 1133-1135
RenderAllOf == rst.pc = "subs" /\ RenderSub("allOf")
\* lines 1136-1144
RenderAnyOf == rst.pc = "subs" /\ RenderSub("anyOf")
\* lines 1145-1153
RenderOneOf == rst.pc = "subs" /\ RenderSub("oneOf")

\* line 1155
RenderOwn ==
    /\ rst.pc = "subs"
    /\ rst.idx > Len(RenderOrder(rst.tmpl))
    /\ rst' = [rst EXCEPT
                !.pc = "merge",
                !.templateTexts =
                    Append(@, MustacheRender(rst.tmpl.templateText, rst.xfparams)),
                !.log = Append(@, Ev("push", "root", 0))]
    /\ UNCHANGED <<inferVars, lst, fwd, use, par>>

\* lines 1157-1175
RenderMerge ==
    /\ rst.pc = "merge"
    /\ rst' = [rst EXCEPT
                !.pc = "returned",
                !.rendered = PostProcess(rst.tmpl.contentType,
                                MergeTexts(rst.tmpl.contentType, rst.templateTexts)),
                !.log = Append(@, Ev("merge", "", 0))]
    /\ UNCHANGED <<inferVars, lst, fwd, use, par>>

RenderNext ==
    \/ RenderValidate
    \/ RenderCombine
    \/ RenderAllOf
    \/ RenderAnyOf
    \/ RenderOneOf
    \/ RenderOwn
    \/ RenderMerge

RenderSpec == RenderInit /\ [][RenderNext]_vars

(***************************************************************************)
(* One loadYaml() call: the promise chain of lines 880-927. A path is the  *)
(* sequence of its segments.                                               *)
(***************************************************************************)
MaxRefs == 2

Ref(name) == With(<<>>, "$ref", name)

\* {"x": "{{x}}"} with definitions {x: {$ref: '#/definitions/r'}, r: {type: string}}
Referenced ==
    JsonDoc(<<Slot("x", Var("x"))>>,
            OPut(OOne("x", Ref("r")), "r", [type |-> "string"]), Obj(<<>>))

\* {"x": "{{x}}"} with definitions {x: {$ref: '#/definitions/r'},
\* r: {type: object, properties: {k: {$ref: '#/definitions/q'}}}, q: {type: string}}
Chained ==
    JsonDoc(<<Slot("x", Var("x"))>>,
            OPut(OPut(OOne("x", Ref("r")),
                      "r", [type |-> "object", properties |-> OOne("k", Ref("q"))]),
                 "q", [type |-> "string"]),
            Obj(<<>>))

\* {"x": {{x}}} with definitions {x: {type: array, items: {type: array,
\* items: {$ref: '#/definitions/q'}}}, q: {type: string}}
NestedItems ==
    JsonDoc(<<Slot("x", Var("x"))>>,
            OPut(OOne("x", [type |-> "array",
                            items |-> [type |-> "array", items |-> Ref("q")]]),
                 "q", [type |-> "string"]),
            Obj(<<>>))

\* the documents a load is given: the rendered ones, and documents whose definitions
\* hold references
LoadDocuments ==
    Documents \cup
    { Referenced, Chained, NestedItems,
      Doc(<<Lit("z", Num(0))>>, OOne("u", [type |-> "string"]), Obj(<<>>), "application/json",
          [NoSubs EXCEPT !.oneOf = <<Referenced>>]) }

RECURSIVE SchemaRefs(_)
\* the references a schema holds, in its properties, its items and its combinators
SchemaRefs(sch) ==
    (IF Has(sch, "$ref") THEN {sch["$ref"]} ELSE {})
    \cup (IF Has(sch, "items") THEN SchemaRefs(sch.items) ELSE {})
    \cup (IF Has(sch, "properties")
          THEN UNION {SchemaRefs(OGet(sch.properties, q)) : q \in DOMAIN sch.properties.map}
          ELSE {})
    \cup UNION {UNION {SchemaRefs(sch[k][i]) : i \in DOMAIN sch[k]} : k \in XOf(sch)}

RECURSIVE Reached(_, _)
\* the definitions the validator compiles: those the schema refers to, and those they refer to
Reached(defs, names) ==
    LET next == names \cup
                UNION {SchemaRefs(OGet(defs, q)) : q \in names \cap DOMAIN defs.map}
    IN  IF next = names THEN names ELSE Reached(defs, next)

\* ajv.compileAsync(schema) fails on a reference it cannot resolve (loadSchema returns nothing)
CompileFails(sch) == ~(Reached(sch.definitions, SchemaRefs(sch)) \subseteq DOMAIN sch.definitions.map)

\* the template-set root directory, and the files a reference may resolve to
RootDir == <<"ts">>
RefPaths == {<<"ts", "a.yaml">>, <<"ts", "sub", "b.yaml">>, <<"etc", "c.yaml">>, <<"ts", "..d.yaml">>}

RECURSIVE CommonPrefix(_, _)
CommonPrefix(from, to) ==
    IF from = <<>> \/ to = <<>> \/ Head(from) # Head(to) THEN 0
    ELSE 1 + CommonPrefix(Tail(from), Tail(to))

\* path.relative(from, to)
PathRelative(from, to) ==
    [i \in 1..(Len(from) - CommonPrefix(from, to)) |-> ".."]
        \o SubSeq(to, CommonPrefix(from, to) + 1, Len(to))

\* the names that start with two dots
DotDotNames == {"..", "..d.yaml"}

IsOutsideNever(rootDir, ref) == FALSE

\* line 891
IsOutside(rootDir, ref) ==
    /\ PathRelative(rootDir, ref) # <<>>
    /\ Head(PathRelative(rootDir, ref)) \in DotDotNames

ParsingReferencesFailed(cause) == [kind |-> "Parsing references failed", cause |-> cause]
LoadFailed(kind) == [kind |-> kind, cause |-> ""]

LoadInit ==
    /\ InferIdle
    /\ rst = RenderIdle
    /\ fwd = ForwardIdle
    /\ use = UseIdle
    /\ par = ParIdle
    /\ \E doc \in LoadDocuments, rootDir \in {<<>>, RootDir},
          templateProvider \in BOOLEAN, skipValidation \in BOOLEAN,
          n \in 0..MaxRefs, readable \in BOOLEAN :
        \E docRefs \in [1..n -> RefPaths] :
            lst = [pc |-> "called",
                   doc |-> doc,
                   rootDir |-> rootDir,
                   templateProvider |-> templateProvider,
                   skipValidation |-> skipValidation,
                   docRefs |-> docRefs,
                   readable |-> readable,
                   refs |-> <<>>,
                   checked |-> {},
                   subs |-> NoSubs,
                   tmpl |-> Rejected("not loaded"),
                   log |-> <<>>,
                   err |-> LoadFailed("")]

LoadRejects(e) == lst' = [lst EXCEPT !.pc = "rejected", !.err = e]

\* lines 882-888
LoadResolve ==
    /\ lst.pc = "called"
    /\ IF lst.rootDir # <<>> /\ ~lst.templateProvider
       THEN IF lst.readable
            THEN lst' = [lst EXCEPT !.pc = "check", !.refs = lst.docRefs,
                                    !.log = Append(@, "resolve")]
            ELSE LoadRejects(ParsingReferencesFailed("unreadable"))
       ELSE lst' = [lst EXCEPT !.pc = "check", !.refs = <<>>]
    /\ UNCHANGED <<inferVars, rst, fwd, use, par>>

\* lines 889-897
LoadCheck ==
    /\ lst.pc = "check"
    /\ IF \E i \in DOMAIN lst.refs : IsOutside(lst.rootDir, lst.refs[i])
       THEN LoadRejects(ParsingReferencesFailed("Found ref to path outside of the template set"))
       ELSE lst' = [lst EXCEPT !.pc = "bundle", !.checked = Range(lst.refs)]
    /\ UNCHANGED <<inferVars, rst, fwd, use, par>>

\* lines 898-901
LoadBundle ==
    /\ lst.pc = "bundle"
    /\ IF lst.readable \/ lst.docRefs = <<>>
       THEN lst' = [lst EXCEPT !.pc = "subs", !.log = Append(@, "bundle")]
       ELSE lst' = [lst EXCEPT !.pc = "rejected", !.log = Append(@, "bundle"),
                               !.err = ParsingReferencesFailed("unreadable")]
    /\ UNCHANGED <<inferVars, rst, fwd, use, par>>

\* lines 902-913
LoadSubs ==
    /\ lst.pc = "subs"
    /\ \E subs \in {LoadSubTemplates(lst.doc)} :
        IF \E i \in DOMAIN SubTemplates(subs) : SubTemplates(subs)[i].err # ""
        THEN lst' = [lst EXCEPT !.pc = "rejected", !.log = Append(@, "sub-templates"),
                                !.err = LoadFailed("sub-template")]
        ELSE lst' = [lst EXCEPT !.pc = "providers", !.subs = subs,
                                !.log = Append(@, "sub-templates")]
    /\ UNCHANGED <<inferVars, rst, fwd, use, par>>

\* lines 914-917
LoadProviders ==
    /\ lst.pc = "providers"
    /\ lst' = [lst EXCEPT !.pc = "infer", !.log = @ \o <<"type schemas", "data files">>]
    /\ UNCHANGED <<inferVars, rst, fwd, use, par>>

\* lines 918-920
LoadInfer ==
    /\ lst.pc = "infer"
    /\ \E tmpl \in {LoadWithSubs(lst.doc, lst.subs, TRUE)} :
        IF tmpl.err # "" THEN LoadRejects(LoadFailed(tmpl.err))
        ELSE lst' = [lst EXCEPT !.pc = "validator", !.tmpl = tmpl]
    /\ UNCHANGED <<inferVars, rst, fwd, use, par>>

\* lines 921-927
LoadValidator ==
    /\ lst.pc = "validator"
    /\ IF ~lst.skipValidation /\ CompileFails(TemplateSchema(lst.tmpl))
       THEN LoadRejects(LoadFailed("Failed to compile parameter validator"))
       ELSE lst' = [lst EXCEPT !.pc = "returned", !.tmpl.validator = ~lst.skipValidation]
    /\ UNCHANGED <<inferVars, rst, fwd, use, par>>

LoadNext ==
    \/ LoadResolve
    \/ LoadCheck
    \/ LoadBundle
    \/ LoadSubs
    \/ LoadProviders
    \/ LoadInfer
    \/ LoadValidator

LoadSpec == LoadInit /\ [][LoadNext]_vars

(***************************************************************************)
(* One forwardHttp() call: fetchHttp, render and the forwarding request.   *)
(* A `url` is a string or an object of request options.                    *)
(***************************************************************************)
UrlString(u) == [string |-> TRUE, url |-> u]
UrlObject(config) == [string |-> FALSE, config |-> config]

\* url.format(configObj)
UrlFormat(configObj) ==
    configObj.protocol \o "://" \o Get(configObj, "host", "") \o configObj.pathname

NodeHttpNames == {"host", "path", "port", "protocol", "hostname", "pathname"}

\* lines 86-99
NodeHttpToAxios(configObj) ==
    IF Has(configObj, "host") \/ Has(configObj, "path")
    THEN LET named == Assign([protocol |-> "http", pathname |-> Get(configObj, "path", "")],
                             configObj)
         IN  [k \in (DOMAIN configObj \cup {"url"}) \ NodeHttpNames |->
                IF k = "url" THEN UrlFormat(named) ELSE configObj[k]]
    ELSE configObj

\* lines 1193-1198 and 1259-1264
WithUrl(axiosConfig, u) ==
    IF u.string THEN Assign(axiosConfig, [url |-> u.url])
    ELSE NodeHttpToAxios(Assign(axiosConfig, u.config))

NoData == [t |-> "none", v |-> ""]

\* the request axios(config) sends
Request(config) ==
    [method |-> Get(config, "method", "GET"),
     url |-> Get(config, "url", ""),
     headers |-> Get(config, "headers", <<>>),
     data |-> Get(config, "data", NoData)]

\* lines 1252-1264
ForwardConfig(tmpl, httpForward) ==
    WithUrl([method |-> "POST", headers |-> ("Content-Type" :> tmpl.contentType)],
            httpForward.url)

\* lines 1186-1189: the properties fetchHttp sends a request for
UrlProperties(tmpl) ==
    SelectSeq(tmpl.parametersSchema.properties.keys,
              LAMBDA def : Has(OGet(tmpl.parametersSchema.properties, def), "url"))

\* lines 1191-1198
FetchRequests(tmpl) ==
    [i \in DOMAIN UrlProperties(tmpl) |->
        Request(WithUrl(<<>>, OGet(tmpl.parametersSchema.properties,
                                   UrlProperties(tmpl)[i]).url))]

\* line 1232
FetchedParameters(parameters, httpView) == Obj(httpView @@ parameters.v)

NotForwarding == [set |-> FALSE]
Forwarding(u) == [set |-> TRUE, url |-> u]

HttpForwards ==
    { NotForwarding,
      Forwarding(UrlString("http://fwd/in")),
      Forwarding(UrlObject([host |-> "fwd", path |-> "/in"])),
      Forwarding(UrlObject([host |-> "fwd", path |-> "/in", method |-> "PUT"])) }

\* {"x": "{{x}}"}, x fetched from a URL
FetchesX ==
    JsonDoc(<<Slot("x", Var("x"))>>,
            OOne("x", [type |-> "string", url |-> UrlString("http://x")]), Obj(<<>>))
FetchesXY ==
    Doc(<<Slot("x", Var("x")), Slot("y", Var("y"))>>,
        OPut(OOne("x", [type |-> "string", url |-> UrlString("http://x")]),
             "y", [type |-> "string", url |-> UrlObject([host |-> "y", path |-> "/"])]),
        Obj(<<>>), "text/plain", NoSubs)

ForwardDocuments == Documents \cup {FetchesX, FetchesXY}

\* what a response body parses to
FetchedValues == {Str("a"), Num(3)}

ForwardInit ==
    /\ InferIdle
    /\ rst = RenderIdle
    /\ lst = LoadIdle
    /\ use = UseIdle
    /\ par = ParIdle
    /\ \E doc \in ForwardDocuments, httpForward \in HttpForwards,
          parameters \in ParameterSets :
        fwd = [pc |-> "called",
               tmpl |-> LoadYaml(doc, FALSE),
               httpForward |-> httpForward,
               parameters |-> parameters,
               axiosConfig |-> <<>>,
               pending |-> {},
               view |-> <<>>,
               requests |-> <<>>,
               log |-> <<>>,
               rendered |-> EmptyText,
               err |-> ""]

ForwardRejects(e) == fwd' = [fwd EXCEPT !.pc = "rejected", !.err = e]

\* lines 1246-1264
ForwardConfigure ==
    /\ fwd.pc = "called"
    /\ IF ~fwd.httpForward.set
       THEN ForwardRejects("httpForward was not defined for this template")
       ELSE fwd' = [fwd EXCEPT !.pc = "fetch",
                               !.axiosConfig = ForwardConfig(fwd.tmpl, fwd.httpForward)]
    /\ UNCHANGED <<inferVars, rst, lst, use, par>>

\* lines 1183-1201: fetchHttp sends a request for every property with a url
ForwardFetch ==
    /\ fwd.pc = "fetch"
    /\ fwd' = [fwd EXCEPT !.pc = "fetching",
                          !.pending = Range(UrlProperties(fwd.tmpl)),
                          !.requests = @ \o FetchRequests(fwd.tmpl),
                          !.log = Append(@, "fetch")]
    /\ UNCHANGED <<inferVars, rst, lst, use, par>>

\* lines 1202-1216: one response arrives, or one request fails
ForwardFetched ==
    /\ fwd.pc = "fetching"
    /\ \E def \in fwd.pending :
        \/ \E value \in FetchedValues :
            fwd' = [fwd EXCEPT !.pending = @ \ {def},
                               !.view = (def :> value) @@ @]
        \/ ForwardRejects("error forwarding: error loading")
    /\ UNCHANGED <<inferVars, rst, lst, use, par>>

\* lines 1218-1219 and 1229-1233
ForwardRender ==
    /\ fwd.pc = "fetching"
    /\ fwd.pending = {}
    /\ \E r \in {Render(fwd.tmpl, FetchedParameters(fwd.parameters, fwd.view), FALSE)} :
        IF ~r.ok
        THEN fwd' = [fwd EXCEPT !.pc = "rejected", !.err = "error forwarding: render",
                                !.log = Append(@, "render")]
        ELSE fwd' = [fwd EXCEPT !.pc = "post", !.rendered = r.text,
                                !.log = Append(@, "render")]
    /\ UNCHANGED <<inferVars, rst, lst, use, par>>

\* line 1268
ForwardPost ==
    /\ fwd.pc = "post"
    /\ fwd' = [fwd EXCEPT !.pc = "posting",
                          !.requests = Append(@, Request(fwd.axiosConfig)),
                          !.log = Append(@, "post")]
    /\ UNCHANGED <<inferVars, rst, lst, use, par>>

\* lines 1268-1271: the endpoint answers, or the request fails
ForwardResponse ==
    /\ fwd.pc = "posting"
    /\ \/ fwd' = [fwd EXCEPT !.pc = "resolved"]
       \/ ForwardRejects("error forwarding: request failed")
    /\ UNCHANGED <<inferVars, rst, lst, use, par>>

ForwardNext ==
    \/ ForwardConfigure
    \/ ForwardFetch
    \/ ForwardFetched
    \/ ForwardRender
    \/ ForwardPost
    \/ ForwardResponse

ForwardSpec == ForwardInit /\ [][ForwardNext]_vars

(***************************************************************************)
(* A loaded Template in use: any sequence of getParametersSchema,          *)
(* getCombinedParameters, validateParameters, transformParameters and      *)
(* render calls on it.                                                     *)
(***************************************************************************)
MaxCalls == 2

\* text/plain `{{#l}}{{a}}{{b}}{{/l}}` with definitions {b: {type: string, default: "z"}}
\* and parameters {l: [{a: "s"}]}
Servers ==
    Doc(<<Slot("l", Section("l", <<Var("a"), Var("b")>>))>>,
        OOne("b", [type |-> "string", default |-> Str("z")]),
        Obj([l |-> Arr(<<Obj([a |-> Str("s")])>>)]), "text/plain", NoSubs)

\* {"l": [{{#l}}"{{a}}",{{/l}}], "m": {{m::array}}, "o": {{o}}} with
\* definitions {o: {type: object}}
Structured ==
    JsonDoc(<<Slot("l", Section("l", <<Var("a")>>)), Slot("m", TypedVar("m", "array")),
              Slot("o", Var("o"))>>,
            OOne("o", [type |-> "object"]), Obj(<<>>))

\* {"w": "{{w}}"}
NeedsW == JsonDoc(<<Slot("w", Var("w"))>>, OEmpty, Obj(<<>>))

\* {"y": "{{y}}", "x": "{{x}}"} with definitions {x: {type: integer}, w: {type: string}}
\* and allOf: [NeedsW]
Ordered ==
    Doc(<<Slot("y", Var("y")), Slot("x", Var("x"))>>,
        OPut(OOne("x", [type |-> "integer"]), "w", [type |-> "string"]),
        Obj(<<>>), "application/json", [NoSubs EXCEPT !.allOf = <<NeedsW>>])

UseDocuments ==
    { Servers, Ordered,
      JsonDoc(<<Slot("x", Var("x")), Lit("y", Num(2))>>, OEmpty, Obj(<<>>)),
      Doc(<<Slot("x", Var("x")), Lit("l", Arr(<<Num(2)>>))>>,
          OOne("x", [type |-> "integer", default |-> Num(1)]),
          Obj([o |-> Obj([b |-> Num(2)])]),
          "application/json", [NoSubs EXCEPT !.allOf = <<ListOne>>]),
      Doc(<<Lit("z", Num(0))>>, OEmpty, Obj(<<>>), "application/json",
          [NoSubs EXCEPT !.allOf = <<Servers>>]),
      Structured }

UseParameterSets ==
    { Obj(<<>>),
      Obj([x |-> Num(3)]),
      Obj([l |-> Arr(<<Obj([a |-> Str("t")])>>)]),
      Obj([l |-> Arr(<<Obj([a |-> Str("t")])>>), m |-> Arr(<<Num(1)>>),
           o |-> Obj([a |-> Num(1)]), u |-> Arr(<<Num(1)>>)]),
      Obj([l |-> Arr(<<>>), m |-> Arr(<<>>), o |-> Obj(<<>>), u |-> Arr(<<>>)]),
      Obj([l |-> Null, m |-> Null, o |-> Null, u |-> Null]) }

Operations ==
    {"getParametersSchema", "getCombinedParameters", "validateParameters",
     "transformParameters", "render"}

\* what a call returns or throws
Result(tmpl, op, parameters, skipValidation) ==
    CASE op = "getParametersSchema" -> TemplateSchema(tmpl)
      [] op = "getCombinedParameters" -> GetCombinedParameters(tmpl, parameters)
      [] op = "validateParameters" -> ValidateParameters(tmpl, parameters)
      [] op = "transformParameters" -> TransformParameters(tmpl, parameters)
      [] op = "render" -> Render(tmpl, parameters, skipValidation)

Call(op, parameters, skipValidation) ==
    [op |-> op, parameters |-> parameters, skipValidation |-> skipValidation,
     result |-> Result(use.tmpl, op, parameters, skipValidation)]

UseInit ==
    /\ InferIdle
    /\ rst = RenderIdle
    /\ lst = LoadIdle
    /\ fwd = ForwardIdle
    /\ par = ParIdle
    /\ \E doc \in UseDocuments :
        use = [pc |-> "ready",
               doc |-> doc,
               built |-> LoadYaml(doc, FALSE),
               tmpl |-> LoadYaml(doc, FALSE),
               calls |-> <<>>]

\* lines 994-1009
UseGetParametersSchema ==
    /\ use.pc = "ready" /\ Len(use.calls) < MaxCalls
    /\ use' = [use EXCEPT !.calls = Append(@, Call("getParametersSchema", Obj(<<>>), FALSE))]
    /\ UNCHANGED <<inferVars, rst, lst, fwd, par>>

\* lines 1016-1068
UseGetCombinedParameters ==
    /\ use.pc = "ready" /\ Len(use.calls) < MaxCalls
    /\ \E parameters \in UseParameterSets :
        use' = [use EXCEPT !.calls = Append(@, Call("getCombinedParameters", parameters, FALSE))]
    /\ UNCHANGED <<inferVars, rst, lst, fwd, par>>

\* lines 1075-1085
UseValidateParameters ==
    /\ use.pc = "ready" /\ Len(use.calls) < MaxCalls
    /\ \E parameters \in UseParameterSets :
        use' = [use EXCEPT
                    !.tmpl = AfterValidate(@, parameters),
                    !.calls = Append(@, Call("validateParameters", parameters, FALSE))]
    /\ UNCHANGED <<inferVars, rst, lst, fwd, par>>

\* lines 1090-1105
UseTransformParameters ==
    /\ use.pc = "ready" /\ Len(use.calls) < MaxCalls
    /\ \E parameters \in UseParameterSets :
        use' = [use EXCEPT !.calls = Append(@, Call("transformParameters", parameters, FALSE))]
    /\ UNCHANGED <<inferVars, rst, lst, fwd, par>>

\* lines 1118-1176
UseRender ==
    /\ use.pc = "ready" /\ Len(use.calls) < MaxCalls
    /\ \E parameters \in UseParameterSets, skipValidation \in BOOLEAN :
        use' = [use EXCEPT
                    !.tmpl = IF skipValidation THEN @ ELSE AfterValidate(@, parameters),
                    !.calls = Append(@, Call("render", parameters, skipValidation))]
    /\ UNCHANGED <<inferVars, rst, lst, fwd, par>>

UseNext ==
    \/ UseGetParametersSchema
    \/ UseGetCombinedParameters
    \/ UseValidateParameters
    \/ UseTransformParameters
    \/ UseRender

UseSpec == UseInit /\ [][UseNext]_vars

(***************************************************************************)
(* The fetches of one loadYaml() call: the sub-template loads of each      *)
(* kind, then the list and the fetches of the schema provider and of the   *)
(* data provider, all of one Promise.all in flight together and completing *)
(* in any order.                                                           *)
(***************************************************************************)
MaxFetches == 2

\* {"x": "{{> nope}}"}: its load fails, no partial of that name is defined
Broken == JsonDoc(<<Slot("x", Partial("nope"))>>, OEmpty, Obj(<<>>))

SubLists == {<<>>, <<NeedsX, NeedsY>>, <<NeedsY, Broken>>}

\* what provider.list() resolves to
Listing(kind, n) == [i \in 1..n |-> kind \o ToString(i)]

\* what provider.fetch(name) resolves to: a JSON text
FetchedText(kind, name) == Json(Str(kind \o ":" \o name))

\* JSON.parse(text)
JsonParse(text) == text.v

Sub(kind, i) == [of |-> kind, i |-> i]
Listed(kind) == [of |-> kind, i |-> 0]
ValueOf(p, id) == (CHOOSE r \in p.results : r.id = id).value

\* lines 274 and 290: a type schema is parsed, a data file is kept as the text
Held(kind, text) == IF kind = "schema" THEN JsonParse(text) ELSE text

\* the fetches of one loader that came back, in the order they came back
ArrivedOf(kind, p) == SelectSeq(p.arrived, LAMBDA id : id.of = kind)

RECURSIVE ReduceArrived(_, _, _)
\* the map as it would be were it filled as the fetches come back
ReduceArrived(kind, p, n) ==
    IF n = 0 THEN OEmpty
    ELSE OPut(ReduceArrived(kind, p, n - 1), p.names[kind][ArrivedOf(kind, p)[n].i],
              Held(kind, ValueOf(p, ArrivedOf(kind, p)[n])))

RECURSIVE ReduceFetched(_, _, _)
\* lines 272-276 and 288-292: the reduce over the first n pairs of the list
ReduceFetched(kind, p, n) ==
    IF n = 0 THEN OEmpty
    ELSE OPut(ReduceFetched(kind, p, n - 1), p.names[kind][n],
              Held(kind, ValueOf(p, Sub(kind, n))))

ParInit ==
    /\ InferIdle
    /\ rst = RenderIdle
    /\ lst = LoadIdle
    /\ fwd = ForwardIdle
    /\ use = UseIdle
    /\ \E oneOf \in SubLists, anyOf \in {<<>>, <<NeedsX, NeedsY>>},
          schemaProvider \in BOOLEAN, dataProvider \in BOOLEAN,
          ns \in 0..MaxFetches, nd \in 0..MaxFetches :
        par = [pc |-> "oneOf",
               kind |-> "",
               doc |-> [oneOf |-> oneOf, allOf |-> <<Silent>>, anyOf |-> anyOf],
               providers |-> [schema |-> schemaProvider, data |-> dataProvider],
               names |-> [schema |-> Listing("schema", ns), data |-> Listing("data", nd)],
               pending |-> {},
               results |-> {},
               arrived |-> <<>>,
               listed |-> {},
               lists |-> NoSubs,
               maps |-> <<>>,
               inferred |-> <<>>,
               failed |-> {}]

ParReject(id) == par' = [par EXCEPT !.pc = "rejected", !.failed = {id}]

\* Promise.all(list.map(x => loadSubTemplate(x))): every load of the kind starts
ParStartSubs(kind) ==
    /\ par' = [par EXCEPT !.pc = "loading",
                          !.kind = kind,
                          !.pending = {Sub(kind, i) : i \in DOMAIN par.doc[kind]}]
    /\ UNCHANGED <<inferVars, rst, lst, fwd, use>>

\* line 902
ParLoadOneOf == par.pc = "oneOf" /\ ParStartSubs("oneOf")
\* line 906
ParLoadAllOf == par.pc = "allOf" /\ ParStartSubs("allOf")
\* line 910
ParLoadAnyOf == par.pc = "anyOf" /\ ParStartSubs("anyOf")

\* one sub-template load settles: lines 875-878
ParSubLoaded ==
    /\ par.pc = "loading"
    /\ \E id \in par.pending :
        \E t \in {LoadSubTemplate(par.doc[id.of][id.i])} :
            IF t.err # "" THEN ParReject(id)
            ELSE par' = [par EXCEPT !.pending = @ \ {id},
                                    !.results = @ \cup {[id |-> id, value |-> t]},
                                    !.arrived = Append(@, id)]
    /\ UNCHANGED <<inferVars, rst, lst, fwd, use>>

\* the Promise.all of a kind resolves to the loaded templates in the order of the list
ParAssign(kind, next) ==
    /\ par.kind = kind
    /\ par.pending = {}
    /\ par' = [par EXCEPT !.pc = next,
                          !.lists[kind] = [i \in DOMAIN par.doc[kind] |->
                                              ValueOf(par, Sub(kind, i))]]
    /\ UNCHANGED <<inferVars, rst, lst, fwd, use>>

\* lines 903-905
ParAssignOneOf == par.pc = "loading" /\ ParAssign("oneOf", "allOf")
\* lines 907-909
ParAssignAllOf == par.pc = "loading" /\ ParAssign("allOf", "anyOf")
\* lines 911-913
ParAssignAnyOf == par.pc = "loading" /\ ParAssign("anyOf", "providers")

\* lines 914-917, 264-267 and 280-283: both loaders start; one without a
\* provider resolves to an empty map at once
ParStartProviders ==
    /\ par.pc = "providers"
    /\ par' = [par EXCEPT
                !.pc = "fetching",
                !.pending = {Listed(kind) : kind \in {q \in {"schema", "data"} : par.providers[q]}},
                !.maps = [kind \in {q \in {"schema", "data"} : ~par.providers[q]} |-> OEmpty]]
    /\ UNCHANGED <<inferVars, rst, lst, fwd, use>>

\* provider.list() settles: lines 268-271 and 284-287 start a fetch for every name
ParListed ==
    /\ par.pc = "fetching"
    /\ \E id \in par.pending, ok \in BOOLEAN :
        /\ id.i = 0
        /\ IF ~ok THEN ParReject(id)
           ELSE par' = [par EXCEPT
                            !.pending = (@ \ {id}) \cup
                                {Sub(id.of, i) : i \in DOMAIN par.names[id.of]},
                            !.listed = @ \cup {id.of}]
    /\ UNCHANGED <<inferVars, rst, lst, fwd, use>>

\* provider.fetch(x) settles
ParFetched ==
    /\ par.pc = "fetching"
    /\ \E id \in par.pending, ok \in BOOLEAN :
        /\ id.i > 0
        /\ IF ~ok THEN ParReject(id)
           ELSE par' = [par EXCEPT
                            !.pending = @ \ {id},
                            !.results = @ \cup
                                {[id |-> id,
                                  value |-> FetchedText(id.of, par.names[id.of][id.i])]},
                            !.arrived = Append(@, id)]
    /\ UNCHANGED <<inferVars, rst, lst, fwd, use>>

\* lines 272-276 and 288-292: the inner Promise.all of one loader has resolved
ParReduce ==
    /\ par.pc = "fetching"
    /\ \E kind \in par.listed \ DOMAIN par.maps :
        /\ \A id \in par.pending : id.of # kind
        /\ par' = [par EXCEPT !.maps =
                        (kind :> ReduceFetched(kind, par, Len(par.names[kind]))) @@ @]
    /\ UNCHANGED <<inferVars, rst, lst, fwd, use>>

\* lines 918-920: inference is called with the two maps
ParInfer ==
    /\ par.pc = "fetching"
    /\ DOMAIN par.maps = {"schema", "data"}
    /\ par' = [par EXCEPT
                !.pc = "inferred",
                !.inferred = <<[typeSchemas |-> par.maps["schema"],
                                dataFiles |-> par.maps["data"],
                                oneOf |-> par.lists.oneOf,
                                allOf |-> par.lists.allOf,
                                anyOf |-> par.lists.anyOf]>>]
    /\ UNCHANGED <<inferVars, rst, lst, fwd, use>>

\* lines 921-927
ParResolve ==
    /\ par.pc = "inferred"
    /\ par' = [par EXCEPT !.pc = "resolved"]
    /\ UNCHANGED <<inferVars, rst, lst, fwd, use>>

ParNext ==
    \/ ParLoadOneOf
    \/ ParAssignOneOf
    \/ ParLoadAllOf
    \/ ParAssignAllOf
    \/ ParLoadAnyOf
    \/ ParAssignAnyOf
    \/ ParSubLoaded
    \/ ParStartProviders
    \/ ParListed
    \/ ParFetched
    \/ ParReduce
    \/ ParInfer
    \/ ParResolve

ParSpec == ParInit /\ [][ParNext]_vars

(***************************************************************************)
(* Properties of schema inference.                                         *)
(***************************************************************************)
Last(s) == s[Len(s)]
NoTags(tokens) == \A i \in DOMAIN tokens : tokens[i].tt \in {"!", "text"}
\* a token of the root template has just been reduced without an error
Reduced(tt) ==
    /\ phase = "reduce"
    /\ phase' = "reduce"
    /\ Len(parsed') = Len(parsed) + 1
    /\ Last(parsed').tt \in tt
PropNames(f) == DOMAIN f.acc.properties.map

C2_Condition(propDef) ==
    /\ ~(Has(propDef, "format") /\ propDef.format \in {"hidden", "info"})
    /\ ~Has(propDef, "mathExpression")
    /\ ~Has(propDef, "dataFile")
    /\ ~Has(propDef, "default")

\* C2 as stated: in the inferred schema a top-level property is required if and
\* only if its definition has a format that is neither hidden nor info, no
\* mathExpression, no dataFile and no default.
C2_RequiredIff ==
    phase = "done" =>
        \A n \in DOMAIN schema.properties.map :
            (n \in Range(Get(schema, "required", <<>>)))
                <=> C2_Condition(OGet(schema.properties, n))

\* C2, amended: a variable or section token adds its name to `required` if and
\* only if the definition it records for the name has a format that is neither
\* hidden nor info, no mathExpression, no dataFile and no default.
C2_TokenRule ==
    [][Reduced({"name", "#"}) =>
        LET n == Last(parsed').name
        IN  (n \in Range(fold'.required))
                <=> (n \in Range(fold.required)
                        \/ C2_Condition(OGet(fold'.acc.properties, n)))]_vars

C2_Witness ==
    /\ phase = "reduce"
    /\ parsed # <<>>
    /\ Last(parsed) = Var("x")
    /\ Has(OGet(fold.acc.properties, "x"), "default")
    /\ "x" \notin Range(fold.required)

\* the characters that end an identifier in an expression
Operators == {"+", "-", "*", "/", "(", ")", " "}
\* the expression references `name` as an identifier
ReferencesIdentifier(text, name) ==
    \E i \in 0..(Len(text) - Len(Chars(name))) :
        /\ SubSeq(text, i + 1, i + Len(Chars(name))) = Chars(name)
        /\ (i = 0 \/ text[i] \in Operators)
        /\ (i + Len(Chars(name)) = Len(text) \/ text[i + Len(Chars(name)) + 1] \in Operators)
\* a variable whose definition declares a mathExpression has just been reduced
ReducedMath ==
    /\ Reduced({"name"})
    /\ Has(OGet(fold'.acc.properties, Last(parsed').name), "mathExpression")
\* the properties that step added besides the variable itself
AddedByMath == PropNames(fold') \ (PropNames(fold) \cup {Last(parsed').name})

\* C6 as stated: a mathExpression adds, as required properties, exactly the
\* identifiers it references that are not already declared properties.
C6_AddsReferenced ==
    [][ReducedMath =>
        /\ AddedByMath =
            {k \in DOMAIN NameChars :
                /\ k \notin PropNames(fold) \cup {Last(parsed').name}
                /\ ReferencesIdentifier(
                        OGet(fold'.acc.properties, Last(parsed').name).mathExpression, k)}
        /\ AddedByMath \subseteq Range(fold'.required)]_vars

\* C6, amended: a mathExpression adds, as required properties, exactly the keys of
\* the collected type definitions whose name occurs in the text of the expression
\* and that are not already properties of the scope.
C6_AddsDefined ==
    [][ReducedMath =>
        /\ AddedByMath =
            {k \in Range(fold'.this.typeDefinitions.keys) :
                /\ k \notin PropNames(fold) \cup {Last(parsed').name}
                /\ Includes(OGet(fold'.acc.properties, Last(parsed').name).mathExpression,
                            Chars(k))}
        /\ AddedByMath \subseteq Range(fold'.required)]_vars

C6_Witness ==
    /\ phase = "reduce"
    /\ parsed = <<Var("c")>>
    /\ OHas(fold.acc.properties, "a")
    /\ "a" \in Range(fold.required)

\* the body of the section just reduced, inferred in its own scope
C10_Body == HandleParsed(Last(parsed').children, ResolveSchemaRef(fold, Last(parsed')).this)
C10_Existing == OGet(fold.acc.properties, Last(parsed').name)
C10_Type == Get(SectionSchemaDef(fold'.this, Last(parsed')), "type", "array")
C10_NewDef ==
    SectionNewDef(SectionSchemaDef(fold'.this, Last(parsed')), C10_Type, C10_Body.schema)
\* a supported section with a well-formed body names an existing property
C10_Case ==
    /\ phase = "reduce"
    /\ Len(parsed') = Len(parsed) + 1
    /\ Last(parsed').tt = "#"
    /\ OHas(fold.acc.properties, Last(parsed').name)
    /\ C10_Body.err = ""
    /\ C10_Type \in SectionTypes
C10_Conflict ==
    \/ Has(C10_Existing, "type") /\ C10_Existing.type # C10_Type
    \/ /\ Has(C10_Existing, "items")
       /\ Has(C10_NewDef, "items")
       /\ Get(C10_Existing.items, "type", "undefined")
            # Get(C10_NewDef.items, "type", "undefined")

\* C10: a section that names an existing property aborts inference with a
\* definition-conflict error when the existing type differs from the section's
\* resolved type, or both have items of different item types; otherwise the
\* redeclaration succeeds and the property keeps that type.
C10_Redeclare ==
    [][C10_Case =>
        IF C10_Conflict
        THEN phase' = "failed" /\ inferErr' \in {"redefine type", "redefine items"}
        ELSE /\ phase' = "reduce"
             /\ OGet(fold'.acc.properties, Last(parsed').name).type = C10_Type]_vars

\* the schema the token just reduced merges into the scope: the registered
\* partial, or the body of the section
C11_Source ==
    IF Last(parsed').tt = ">"
    THEN OGet(fold.this.typeDefinitions, Last(parsed').name)
    ELSE C10_Body.schema
\* the properties of the scope the merge rule protects
C11_Protected ==
    {prop \in PropNames(fold) :
        /\ Get(OGet(fold.acc.properties, prop), "type", "") \in {"array", "string"}
        /\ Has(C11_Source, "properties")
        /\ OHas(C11_Source.properties, prop)
        /\ Get(OGet(C11_Source.properties, prop), "type", "") = "boolean"}

\* C11: when a partial reference, a hoisting section or an inverted section merges
\* a boolean property into a scope that already has an array or string property
\* of the same name, the property of the scope is left unchanged.
C11_NoNarrowing ==
    [][Reduced({">", "#", "^"}) =>
        \A prop \in C11_Protected :
            OGet(fold'.acc.properties, prop) = OGet(fold.acc.properties, prop)]_vars

C11_Witness ==
    /\ phase = "reduce"
    /\ parsed = <<Var("x"), Section("f", <<TypedVar("x", "boolean")>>)>>
    /\ OHas(self.definitions, "f")
    /\ OGet(fold.acc.properties, "x").type = "string"
    /\ OHas(fold.acc.properties, "f")

\* the names that the inferred schema lists as required and as keys of dependencies
C12_Both ==
    Range(Get(schema, "required", <<>>))
        \cap DOMAIN Get(schema, "dependencies", OEmpty).map

\* C12 as stated: in the schema inference returns, no required name is a key of
\* `dependencies`, names with author-declared dependencies included.
C12_Disjoint == phase \in {"parsed", "done"} => C12_Both = {}

\* C12, amended: a required name is a key of `dependencies` only when the author
\* declared dependencies for it, and then with exactly the declared list.
C12_DisjointUnlessExplicit ==
    phase \in {"parsed", "done"} =>
        \A n \in C12_Both :
            /\ OHas(fold.this.explicitDeps, n)
            /\ OGet(schema.dependencies, n) = OGet(fold.this.explicitDeps, n)

C12_Witness ==
    /\ phase = "done"
    /\ parsed = <<Inverted("f", <<Var("y")>>), Var("y")>>
    /\ fold.this.explicitDeps = OEmpty
    /\ OHas(fold.dependencies, "y")
    /\ "y" \in Range(schema.required)
    /\ ~Has(schema, "dependencies")

\* the names the root template uses as the toggle of an inverted section
C15_Toggles == {parsed[i].name : i \in {j \in DOMAIN parsed : parsed[j].tt = "^"}}

\* C15 as stated: in the inferred schema the toggle of an inverted section is not
\* in `required`, wherever the other tokens that use the name stand.
C15_NeverRequired ==
    phase \in {"parsed", "done"} =>
        C15_Toggles \cap Range(Get(schema, "required", <<>>)) = {}

\* the names for which the author declared dependencies
C16_Declared == DOMAIN fold.this.explicitDeps.map

\* the schema lists exactly the declared dependencies of a name
C16_Exact(n) ==
    /\ Has(schema, "dependencies")
    /\ OHas(schema.dependencies, n)
    /\ OGet(schema.dependencies, n) = OGet(fold.this.explicitDeps, n)

\* a property with declared dependencies carries no invertDependency
C16_NotInverted(n) ==
    OHas(schema.properties, n) => ~Has(OGet(schema.properties, n), "invertDependency")

C16_HasProperties == Has(schema, "properties") /\ schema.properties.keys # <<>>

C20_Registered(this) == OGet(this.typeDefinitions, Last(parsed').name)
\* the accumulator holds a string or array property that the partial declares boolean
C20_Filters ==
    \E prop \in DOMAIN fold.acc.properties.map :
        /\ OHas(Get(C20_Registered(fold.this), "properties", OEmpty), prop)
        /\ Get(OGet(fold.acc.properties, prop), "type", "") \in {"array", "string"}
        /\ Get(OGet(C20_Registered(fold.this).properties, prop), "type", "") = "boolean"

\* C20 as stated: merging a registered partial's schema into an accumulator leaves
\* the registered partial schema unchanged, so every reference to the partial merges
\* the same set of properties.
C20_PartialUnchanged ==
    [][Reduced({">"}) => C20_Registered(fold'.this) = C20_Registered(fold.this)]_vars

\* what the code does: the registered schema is unchanged exactly when no property
\* of the partial is filtered out by the accumulator.
C20_ChangedWhenFiltered ==
    [][Reduced({">"}) =>
        ((C20_Registered(fold'.this) = C20_Registered(fold.this)) <=> ~C20_Filters)]_vars

\* the names of the properties of a schema
C21_Properties(sch) == IF Has(sch, "properties") THEN DOMAIN sch.properties.map ELSE {}
\* the item schemas of the array sections of a schema
C21_Items(sch) ==
    {OGet(sch.properties, q).items :
        q \in {k \in C21_Properties(sch) : Has(OGet(sch.properties, k), "items")}}
\* the schemas of the partials compiled from definitions
C21_Partials ==
    {OGet(self.typeDefinitions, q) : q \in (self.partials \cap DOMAIN self.typeDefinitions.map)}
\* the schemas inference has just returned: the partials once definitions are
\* compiled, the root schema once the root text is reduced, and the items of their sections
C21_Schemas ==
    LET top == IF phase = "reduce" /\ parsed = <<>> THEN C21_Partials
               ELSE IF phase \in {"parsed", "done"} THEN {schema}
               ELSE {}
    IN  top \cup UNION {C21_Items(sch) : sch \in top}
C21_RequiredIn(sch) == Range(Get(sch, "required", <<>>)) \subseteq C21_Properties(sch)
C21_DependencyKeys(sch) == DOMAIN Get(sch, "dependencies", OEmpty).map
C21_DependenciesIn(sch) == C21_DependencyKeys(sch) \subseteq C21_Properties(sch)

\* C21 as stated: in every schema returned by inference, every key of dependencies
\* and every name in required is the name of a property of that same schema.
C21_Closed == \A sch \in C21_Schemas : C21_RequiredIn(sch) /\ C21_DependenciesIn(sch)

\* what the code does keep: every name in required is a property of the schema
C21_RequiredClosed == \A sch \in C21_Schemas : C21_RequiredIn(sch)

\* the root text is a section followed by an inverted section of the same name
C23_Pair ==
    /\ phase \in {"reduce", "failed"}
    /\ Len(parsed) = 2
    /\ parsed[1].tt = "#"
    /\ parsed[2].tt = "^"
    /\ parsed[1].name = parsed[2].name
\* what inference returns for the two tokens as they stand, and for the two exchanged
C23_SectionFirst == HandleParsed(parsed, self)
C23_InvertedFirst == HandleParsed(<<parsed[2], parsed[1]>>, self)
C23_TypeOf(h) == Get(OGet(h.schema.properties, parsed[1].name), "type", "undefined")
C23_Required(h) == parsed[1].name \in Range(h.schema.required)

\* C23 as stated: for a template with a section and an inverted section of the same
\* name, inference succeeds or fails, and on success gives the property the same type
\* and the same membership in required, whichever of the two comes first.
C23_OrderIrrelevant ==
    C23_Pair =>
        /\ (C23_SectionFirst.err = "") <=> (phase = "reduce")
        /\ (C23_SectionFirst.err = "") <=> (C23_InvertedFirst.err = "")
        /\ (C23_SectionFirst.err = "" /\ C23_InvertedFirst.err = "") =>
              /\ C23_TypeOf(C23_SectionFirst) = C23_TypeOf(C23_InvertedFirst)
              /\ C23_Required(C23_SectionFirst) = C23_Required(C23_InvertedFirst)

(***************************************************************************)
(* Properties of render and of the combined parameters.                    *)
(***************************************************************************)
\* render has computed the combined parameters
Combined == rst.pc \in {"subs", "merge", "returned"}
Events(ev) == {i \in DOMAIN rst.log : rst.log[i].ev = ev}
RootCombined == GetCombinedParameters(rst.tmpl, rst.parameters)
\* the combined parameters fail the compiled validator
C3_Fails ==
    /\ RootCombined.ok
    /\ ValidationErrors(TemplateSchema(rst.tmpl), RootCombined.v) # {}

\* C3: without skipValidation, when the combined parameters fail the validator,
\* render throws the validation error, with the caller's parameters and the
\* validator's errors, before it renders a sub-template, transforms a parameter or
\* merges a fragment, and returns nothing; with skipValidation the validator is
\* never invoked.
C3_ValidationFirst ==
    /\ (rst.pc # "called" /\ ~rst.skipValidation /\ C3_Fails) =>
            /\ rst.pc = "thrown"
            /\ rst.err.kind = "failed validation"
            /\ rst.err.parameters = rst.parameters
            /\ rst.err.errors = ValidationErrors(TemplateSchema(rst.tmpl), RootCombined.v)
            /\ rst.log = <<Ev("validate", "", 0)>>
            /\ rst.templateTexts = <<>>
            /\ rst.rendered = EmptyText
    /\ rst.skipValidation => Events("validate") = {}

C3_Witness ==
    /\ rst.pc = "thrown"
    /\ rst.err.kind = "failed validation"
    /\ rst.err.errors # {}

\* the sources of a combined value, lowest precedence first
C4_Sources ==
    [i \in DOMAIN SubTemplates(rst.tmpl) |->
        GetCombinedParameters(SubTemplates(rst.tmpl)[i], rst.parameters).v]
    \o <<TypeDefaults(rst.tmpl), rst.tmpl.defaultParameters, rst.parameters>>
C4_Defined(key) == \E i \in DOMAIN C4_Sources : key \in DOMAIN C4_Sources[i].v
\* the values the sources hold for a key, lowest precedence first
C4_Held(key) ==
    [i \in DOMAIN SelectSeq(C4_Sources, LAMBDA s : key \in DOMAIN s.v) |->
        SelectSeq(C4_Sources, LAMBDA s : key \in DOMAIN s.v)[i].v[key]]
C4_Top(key) == C4_Held(key)[Len(C4_Held(key))]
C4_IsMath(key) ==
    /\ OHas(rst.tmpl.parametersSchema.properties, key)
    /\ Has(OGet(rst.tmpl.parametersSchema.properties, key), "mathExpression")

\* C4 as stated: every key of the combined parameters has the value of the
\* highest-precedence source that defines it (caller, defaultParameters, schema
\* defaults, sub-templates oneOf, allOf, anyOf with later ones winning); an array
\* is the later source's array.
C4_Precedence ==
    Combined =>
        \A key \in DOMAIN rst.combParams.v :
            C4_Defined(key) => rst.combParams.v[key] = C4_Top(key)

\* C4, amended: the same for every key that carries no mathExpression and whose
\* highest-precedence value is not an object; an object there is merged, key by
\* key under the same rule, with the values the lower sources hold.
C4_PrecedenceOfLeaves ==
    Combined =>
        \A key \in DOMAIN rst.combParams.v :
            (C4_Defined(key) /\ ~C4_IsMath(key)) =>
                IF C4_Top(key).t # "obj" THEN rst.combParams.v[key] = C4_Top(key)
                ELSE rst.combParams.v[key] = MergeAll(C4_Held(key), TRUE)

C4_Witness ==
    /\ Combined
    /\ Len(C4_Held("l")) = 2
    /\ C4_Held("l")[1] = Arr(<<Num(1)>>)
    /\ rst.combParams.v["l"] = Arr(<<Num(2)>>)

RECURSIVE C5_Sum(_, _)
\* the value of a sum under the given bindings
C5_Sum(expr, bindings) ==
    IF expr = <<>> THEN 0
    ELSE C5_Sum(Tail(expr), bindings)
            + (IF Head(expr) \in DOMAIN bindings THEN bindings[Head(expr)].v ELSE 0)
C5_Folded ==
    FoldDefaults(rst.tmpl, rst.parameters,
        [i \in DOMAIN SubTemplates(rst.tmpl) |->
            GetCombinedParameters(SubTemplates(rst.tmpl)[i], rst.parameters)])

\* C5: a property of the root schema with a mathExpression has, in the combined
\* parameters, the value of the expression under the folded parameter values, as
\* text when the property's type is string, whatever the caller or the defaults
\* give for its name.
C5_Computed ==
    Combined =>
        \A key \in DOMAIN rst.tmpl.parametersSchema.properties.map :
            C4_IsMath(key) =>
                /\ key \in DOMAIN rst.combParams.v
                /\ rst.combParams.v[key] =
                    IF OGet(rst.tmpl.parametersSchema.properties, key).type = "string"
                    THEN Str(ToString(C5_Sum(
                            OGet(rst.tmpl.parametersSchema.properties, key).mathExpression,
                            C5_Folded.v)))
                    ELSE Num(C5_Sum(
                            OGet(rst.tmpl.parametersSchema.properties, key).mathExpression,
                            C5_Folded.v))

C5_Witness ==
    /\ Combined
    /\ "c" \in DOMAIN rst.parameters.v
    /\ rst.parameters.v["c"] = Str("9")
    /\ rst.combParams.v["c"] = Str("5")

\* the combined parameters fail the parameter validation of a sub-template
C7_Fails(sub) ==
    /\ GetCombinedParameters(sub, rst.combParams).ok
    /\ ValidationErrors(TemplateSchema(sub),
                        GetCombinedParameters(sub, rst.combParams).v) # {}

\* C7: an anyOf or oneOf sub-template whose parameter validation the combined
\* parameters fail contributes no fragment, and raises no error; any other error
\* of a branch aborts the render.
C7_FailingBranchExcluded ==
    /\ \A e \in Events("push") :
            rst.log[e].kind \in {"anyOf", "oneOf"}
                => ~C7_Fails(RenderOrder(rst.tmpl)[rst.log[e].i])
    /\ Combined =>
            \A i \in 1..(rst.idx - 1) :
                \/ Render(RenderOrder(rst.tmpl)[i], rst.combParams, TRUE).ok
                \/ /\ KindAt(rst.tmpl, i) \in {"anyOf", "oneOf"}
                   /\ C7_Fails(RenderOrder(rst.tmpl)[i])

\* the non-empty fragments, in the order render pushed them
C8_Fragments == SelectSeq(rst.templateTexts, LAMBDA f : f # EmptyText)
C8_Holders(key) == SelectSeq(C8_Fragments, LAMBDA f : key \in DOMAIN f.v)
\* a JSON render has returned, and every non-empty fragment is an object
C8_Case ==
    /\ rst.pc = "returned"
    /\ rst.tmpl.contentType = "application/json"
    /\ \A i \in DOMAIN C8_Fragments : C8_Fragments[i].t = "obj"
C8_Rank == [allOf |-> 1, anyOf |-> 2, oneOf |-> 3, root |-> 4]
\* the fragments are pushed allOf first, then anyOf, then oneOf, then the root
C8_Ordered ==
    \A i, j \in Events("push") :
        i < j => C8_Rank[rst.log[i].kind] <= C8_Rank[rst.log[j].kind]
C8_KeysKept ==
    /\ rst.rendered.t = "obj"
    /\ DOMAIN rst.rendered.v = UNION {DOMAIN C8_Fragments[i].v : i \in DOMAIN C8_Fragments}
    /\ \A key \in DOMAIN rst.rendered.v :
            Len(C8_Holders(key)) = 1 => rst.rendered.v[key] = C8_Holders(key)[1].v[key]
C8_AllArrays(key) ==
    /\ Len(C8_Holders(key)) > 1
    /\ \A i \in DOMAIN C8_Holders(key) : C8_Holders(key)[i].v[key].t = "arr"
RECURSIVE C8_Appended(_, _)
C8_Appended(holders, key) ==
    IF holders = <<>> THEN <<>>
    ELSE Head(holders).v[key].v \o C8_Appended(Tail(holders), key)

\* C8 as stated: a JSON render merges its non-empty fragments in the order allOf,
\* anyOf, oneOf, root; a key only one fragment has is kept with its value, and a
\* key that is an array in the fragments that have it gets the last one's array.
C8_ArraysReplaced ==
    C8_Case =>
        /\ C8_Ordered
        /\ C8_KeysKept
        /\ \A key \in DOMAIN rst.rendered.v :
                C8_AllArrays(key) =>
                    rst.rendered.v[key] = C8_Holders(key)[Len(C8_Holders(key))].v[key]

\* C8, amended: a key that is an array in the fragments that have it gets their
\* arrays appended in that order.
C8_ArraysAppended ==
    C8_Case =>
        /\ C8_Ordered
        /\ C8_KeysKept
        /\ \A key \in DOMAIN rst.rendered.v :
                C8_AllArrays(key) =>
                    rst.rendered.v[key] = Arr(C8_Appended(C8_Holders(key), key))

C8_Witness ==
    /\ C8_Case
    /\ Len(C8_Fragments) = 2
    /\ rst.rendered.v["l"] = Arr(<<Num(1), Num(2)>>)

(***************************************************************************)
(* Properties of the structured load.                                      *)
(***************************************************************************)
Logged(what) == \E i \in DOMAIN lst.log : lst.log[i] = what
\* a reference of the document resolves outside the root directory
\* the file lies in the root directory or below it
C9_Within(rootDir, ref) ==
    /\ Len(ref) > Len(rootDir)
    /\ SubSeq(ref, 1, Len(rootDir)) = rootDir
C9_Escapes ==
    \E i \in DOMAIN lst.docRefs :
        lst.rootDir # <<>> /\ ~C9_Within(lst.rootDir, lst.docRefs[i])
C9_Safe ==
    /\ Logged("bundle") =>
            /\ Range(lst.docRefs) \subseteq lst.checked
            /\ ~C9_Escapes
    /\ (C9_Escapes /\ lst.pc \notin {"called", "check"}) =>
            /\ lst.pc = "rejected"
            /\ lst.err.kind = "Parsing references failed"
            /\ lst.readable =>
                    lst.err.cause = "Found ref to path outside of the template set"
            /\ ~Logged("sub-templates")
            /\ ~Logged("type schemas")
            /\ ~Logged("data files")
            /\ lst.tmpl = Rejected("not loaded")

\* C9 as stated: whatever the options, the references are bundled only after the
\* path check has passed over every resolved reference path; a path outside the
\* root directory rejects the load before a sub-template, a type schema or a data
\* file is loaded, and no Template is returned.
C9_CheckedBeforeBundle == C9_Safe

\* C9, amended: the same when rootDir is given and no templateProvider is.
C9_CheckedWithRootDir ==
    (lst.rootDir # <<>> /\ ~lst.templateProvider) => C9_Safe

C9_Witness ==
    /\ lst.pc = "rejected"
    /\ lst.err = ParsingReferencesFailed("Found ref to path outside of the template set")
    /\ \E i \in DOMAIN lst.docRefs : lst.docRefs[i] = <<"etc", "c.yaml">>

(***************************************************************************)
(* Properties of forwardHttp.                                              *)
(***************************************************************************)
C13_Posts == {i \in DOMAIN fwd.requests : fwd.requests[i].method = "POST"}
\* the endpoint httpForward configures
C13_Endpoint ==
    IF fwd.httpForward.url.string THEN fwd.httpForward.url.url
    ELSE "http://" \o fwd.httpForward.url.config.host \o fwd.httpForward.url.config.path

\* C13: forwardHttp sends exactly one POST to the configured endpoint, only after
\* the fetch and the render succeeded, with the rendered text as its body and the
\* contentType of the template as its Content-Type; a failed fetch or render sends
\* no POST, and without httpForward the call is rejected and nothing is fetched,
\* rendered or sent.
C13_ForwardsRendered ==
    /\ (~fwd.httpForward.set /\ fwd.pc # "called") =>
            /\ fwd.pc = "rejected"
            /\ fwd.requests = <<>>
            /\ fwd.log = <<>>
    /\ \A i \in C13_Posts :
            /\ "render" \in Range(fwd.log)
            /\ fwd.pc \in {"posting", "resolved", "rejected"}
            /\ fwd.requests[i].url = C13_Endpoint
            /\ fwd.requests[i].data = fwd.rendered
            /\ Has(fwd.requests[i].headers, "Content-Type")
            /\ fwd.requests[i].headers["Content-Type"] = fwd.tmpl.contentType
    /\ Cardinality(C13_Posts) <= 1
    /\ fwd.pc = "resolved" => Cardinality(C13_Posts) = 1
    /\ (fwd.pc = "rejected" /\ "post" \notin Range(fwd.log)) => C13_Posts = {}

(***************************************************************************)
(* Properties of a loaded Template in use.                                 *)
(***************************************************************************)
\* C14, first part: no call changes the parameter schema, the definitions, the
\* defaultParameters or the composition lists of the Template
C14_Unchanged == use.pc = "ready" => use.tmpl = use.built

\* C14, second part: every call returned what it returns on the Template as it
\* was constructed, whatever calls preceded it
C14_SameResult ==
    use.pc = "ready" =>
        \A i \in DOMAIN use.calls :
            use.calls[i].result =
                Result(use.built, use.calls[i].op, use.calls[i].parameters,
                       use.calls[i].skipValidation)

\* C14: once a Template is constructed, no sequence of render,
\* validateParameters, getCombinedParameters, transformParameters and
\* getParametersSchema calls changes it, and a call with given parameters
\* returns the same result whatever calls preceded it
C14_ReadOnly == C14_Unchanged /\ C14_SameResult

(***************************************************************************)
(* Properties of the fetches of a load.                                    *)
(***************************************************************************)
\* the map of a loader, by the names its provider lists and what it holds for them
C17_Map(kind) ==
    IF ~par.providers[kind] THEN OEmpty
    ELSE [keys |-> par.names[kind],
          map |-> [name \in Range(par.names[kind]) |->
                    IF kind = "schema" THEN Str(kind \o ":" \o name)
                    ELSE Json(Str(kind \o ":" \o name))]]

\* what inference is given, by the document and the providers alone
C17_Inputs ==
    [typeSchemas |-> C17_Map("schema"),
     dataFiles |-> C17_Map("data"),
     oneOf |-> [i \in DOMAIN par.doc.oneOf |-> LoadYaml(par.doc.oneOf[i], TRUE)],
     allOf |-> [i \in DOMAIN par.doc.allOf |-> LoadYaml(par.doc.allOf[i], TRUE)],
     anyOf |-> [i \in DOMAIN par.doc.anyOf |-> LoadYaml(par.doc.anyOf[i], TRUE)]]

\* two results of one Promise.all came back against the order of their list
C17_OutOfOrder(of) ==
    \E i, j \in DOMAIN par.arrived :
        /\ i < j
        /\ par.arrived[i].of = of /\ par.arrived[j].of = of
        /\ par.arrived[i].i > par.arrived[j].i

\* C17: whatever the order in which the sub-template loads and the fetches of
\* type schemas and data files complete, inference starts only after all of
\* them completed, with maps and sub-template lists that depend on the
\* document and the providers alone; if any of them fails inference never
\* starts and the load is rejected.
C17_OrderIrrelevant ==
    /\ par.inferred # <<>> =>
        /\ par.pc \in {"inferred", "resolved"}
        /\ par.pending = {} /\ par.failed = {}
        /\ par.inferred = <<C17_Inputs>>
    /\ par.failed # {} => par.pc = "rejected" /\ par.inferred = <<>>
    /\ par.pc = "resolved" => par.inferred # <<>>

C17_Witness ==
    /\ par.pc = "resolved"
    /\ C17_OutOfOrder("oneOf") /\ C17_OutOfOrder("schema") /\ C17_OutOfOrder("data")
    /\ par.inferred = <<C17_Inputs>>

\* the serialization the claim expects for a value of a property of a type
C18_Serialized(type, value) ==
    Json(IF value # Null THEN value ELSE IF type = "array" THEN Arr(<<>>) ELSE Obj(<<>>))

\* what C18 states of one parameter of a transformParameters call
C18_Parameter(tmpl, curr, value, result) ==
    IF tmpl.contentType # "application/json"
        \/ ~OHas(tmpl.parametersSchema.properties, curr)
    THEN result = value
    ELSE IF Get(OGet(tmpl.parametersSchema.properties, curr), "type", "")
                \notin {"array", "object"}
    THEN TRUE
    ELSE IF ~Has(OGet(tmpl.parametersSchema.properties, curr), "skip_xform")
    THEN result = C18_Serialized(OGet(tmpl.parametersSchema.properties, curr).type, value)
    ELSE value \notin {Null, Arr(<<>>), Obj(<<>>)} => result = value

\* C18: with content type application/json transformParameters replaces every
\* array- or object-typed parameter that is not flagged skip_xform by its JSON
\* serialization, the empty array and an absent value included, leaves a
\* non-empty value of a flagged property and every parameter without a schema
\* entry unchanged; with any other content type every value is unchanged.
C18_Transformed ==
    use.pc = "ready" =>
        \A i \in DOMAIN use.calls :
            use.calls[i].op = "transformParameters" =>
                \A curr \in DOMAIN use.calls[i].parameters.v :
                    C18_Parameter(use.built, curr, use.calls[i].parameters.v[curr],
                                  use.calls[i].result.v[curr])

\* the `this` of the root inference of the loaded document: lines 637-663
C19_This ==
    CompileAll(ExtractExplicitDeps(
        NewTemplate(MergedDefinitions(SubTemplates(LoadSubTemplates(use.doc)),
                                      use.doc.definitions)),
        MergedDefinitions(SubTemplates(LoadSubTemplates(use.doc)),
                          use.doc.definitions).keys)).this

\* the accumulator of the root inference once every token is reduced
C19_Fold == FoldTokens(EmptyFold(C19_This), MustacheParse(use.doc.template))

\* the names inference found, in the order they entered the accumulator
C19_Found ==
    IF C19_Fold.acc.properties.keys \in {<<>>, <<".">>} THEN <<>>
    ELSE C19_Fold.acc.properties.keys

C19_Props == use.built.parametersSchema.properties.keys

\* the properties that are keys of `definitions`, in the order of `definitions`
C19_Defined ==
    SelectSeq(C19_Fold.this.definitions.keys, LAMBDA q : q \in Range(C19_Props))

\* the other properties, in their original order
C19_Others == SelectSeq(C19_Found, LAMBDA q : ~OHas(C19_Fold.this.definitions, q))

RECURSIVE C19_NoOrderField(_)
\* no property definition of a schema carries a propertyOrder
C19_NoOrderField(sch) ==
    /\ ~Has(sch, "propertyOrder")
    /\ Has(sch, "properties") =>
        \A q \in DOMAIN sch.properties.map : C19_NoOrderField(sch.properties.map[q])
    /\ Has(sch, "items") => C19_NoOrderField(sch.items)

\* C19 as stated: in a schema that has properties, the properties that are keys
\* of `definitions` come first, in the order of `definitions`, then all others
\* in their original order; and no property carries a propertyOrder.
C19_DefinedFirst ==
    (use.pc = "ready" /\ C19_Props # <<>>) =>
        /\ C19_Props = C19_Defined \o C19_Others
        /\ C19_NoOrderField(use.built.parametersSchema)

\* C19, amended: the properties inference found that are keys of `definitions`
\* come first, in the order of `definitions`, then the others it found in their
\* original order, then the properties taken from `definitions` for the
\* sub-templates, in the order of `definitions`; none carries a propertyOrder.
C19_SortedThenAppended ==
    (use.pc = "ready" /\ C19_Props # <<>>) =>
        /\ C19_Props =
                SelectSeq(C19_Defined, LAMBDA q : q \in Range(C19_Found))
                \o C19_Others
                \o SelectSeq(C19_Defined, LAMBDA q : q \notin Range(C19_Found))
        /\ C19_NoOrderField(use.built.parametersSchema)

C19_Witness ==
    /\ use.pc = "ready"
    /\ use.doc = Ordered
    /\ C19_Found = <<"y", "x">>
    /\ Len(use.calls) = 1
    /\ use.calls[1].op = "getParametersSchema"
    /\ use.calls[1].result.properties.keys = <<"x", "y", "w">>

(***************************************************************************)
(* Properties of the references of an exported schema.                     *)
(***************************************************************************)
\* the exported combined schema of the loaded template
C22_Exported == TemplateSchema(lst.tmpl)
\* the references inside the definitions a schema keeps
C22_InDefinitions(sch) ==
    UNION {SchemaRefs(OGet(sch.definitions, q)) : q \in DOMAIN sch.definitions.map}
\* every reference that occurs in the exported schema: in properties, in items at
\* any depth, in combinator branches, and inside a kept definition
C22_References ==
    SchemaRefs(C22_Exported) \cup C22_InDefinitions(C22_Exported)

\* C22 as stated: after a template is loaded, every reference to a definition that
\* occurs anywhere in the exported combined schema names a key of the exported
\* definitions.
C22_Resolved ==
    lst.pc = "returned" => C22_References \subseteq DOMAIN C22_Exported.definitions.map

\* what the code does keep: the references getRefDefs lists are keys of the
\* exported definitions
C22_ListedResolved ==
    lst.pc = "returned" =>
        GetRefDefs(C22_Exported) \subseteq DOMAIN C22_Exported.definitions.map

====
